---- MODULE Spec2Model ----
(***************************************************************************)
(* Model of recetas-de-charly:                                             *)
(*   - ServerActions        (src/lib/actions/server-wrapper.tsx)           *)
(*   - ServerActionsResults (src/lib/actions/client-results.tsx)           *)
(*   - useServerAction      (src/lib/hooks, execute)                       *)
(*   - getErrorMessage / ERROR_MESSAGES (src/lib/constants/errors)         *)
(*   - LikeButton, BookmarkButton, RecipeNotes (src/components/recipes)    *)
(*   - updateSession        (middleware)                                   *)
(*   - the recipe forms     (src/app/recipes/new, [id]/edit, RecipeForm)   *)
(*   - createClient         (src/lib/supabase/client, browser side)        *)
(*   - AuthProvider, Header (src/lib/auth, src/components/layout)          *)
(*                                                                         *)
(* JavaScript values are strings; "undefined" and "null" stand for the     *)
(* two nullish values, "" is the empty string.                             *)
(***************************************************************************)
EXTENDS Integers, Sequences, FiniteSets, TLC

VARIABLES
    \* ---- ServerActions (one call of the server component)
    actions,              \* props.actions: key -> [defaultValue]
    searchParams,         \* props.searchParams ("undefined" when not given)
    resolvedSearchParams, \* const resolvedSearchParams
    phase,                \* position of the ServerActions call
    opState,              \* per key: state of the promise of the map callback
    callArgs,             \* per key: arguments config.action was invoked with
    results,              \* const results
    defaults,             \* const defaults
    processedData,        \* const processedData (as handed to children)
    processedErrors,      \* const processedErrors (as handed to children)
    \* ---- ServerActionsResults (one mounted instance of the client component)
    propsResults,         \* props.results
    resultsId,            \* identity of the props.results object
    renders,              \* renders done with the current props.results
    committedDeps,        \* deps [results] of the last committed render (0: none)
    effectPending,        \* the effect is scheduled and has not run yet
    toasts,               \* toast.error calls made for the current props.results
    \* ---- useServerAction (one instance of the hook)
    isLoading,            \* const [isLoading, setIsLoading] = useState(false)
    calls,                \* per slot: the last execute call made in it
    \* ---- the browser: LikeButton, BookmarkButton, RecipeNotes and the store
    db,                   \* tables likes, bookmarks, recipe_notes
    session,              \* the user of the browser session ("null": none)
    tabs,                 \* per tab: the state of the component it shows
    outcome,              \* the handler that returned in the last step
    \* ---- updateSession (the middleware of one deployment)
    mw,                   \* configuration, position, request and response
    \* ---- the recipe forms (new page, edit page, RecipeForm) and their tables
    store,                \* recipes, ingredients and the tables of their parts
    forms,                \* per browser: the submit in progress
    report,               \* what onSubmit showed in the last step
    submits,              \* calls of onSubmit so far
    failures,             \* writes that did not reach the store so far
    \* ---- createClient (the browser module of the data-access client)
    sb,                   \* configuration, browserClient, what callers got
    \* ---- AuthProvider and Header (their onAuthStateChange handlers)
    auth                  \* per component: user, last event, fetches in flight

aggVars == <<actions, searchParams, resolvedSearchParams, phase, opState,
             callArgs, results, defaults, processedData, processedErrors>>

resultsVars == <<propsResults, resultsId, renders, committedDeps, effectPending,
                 toasts>>

hookVars == <<isLoading, calls>>

clientVars == <<db, session, tabs, outcome>>

sessionVars == <<mw>>

recipeVars == <<store, forms, report, submits, failures>>

singletonVars == <<sb>>

authVars == <<auth>>

vars == <<aggVars, resultsVars, hookVars, clientVars, sessionVars, recipeVars,
          singletonVars, authVars>>

----------------------------------------------------------------------------
\* JavaScript values

UNDEF == "undefined"
NULL == "null"

\* x is nullish: the left operand of ?? is replaced
Nullish(x) == x \in {UNDEF, NULL}

\* x is falsy (strings only): the left operand of || is replaced
Falsy(x) == x \in {UNDEF, NULL, ""}

\* a ?? b
CoalesceFalsy(a, b) == IF a \in {UNDEF, NULL, ""} THEN b ELSE a

Coalesce(a, b) == IF Nullish(a) THEN b ELSE a

\* a || b
OrElse(a, b) == IF Falsy(a) THEN b ELSE a

\* the empty object {}
EmptyObject == [k \in {} |-> UNDEF]

\* obj[key] = value
Assign(obj, key, value) == (key :> value) @@ obj

\* obj[key], undefined when the key is not set
Get(obj, key) == IF key \in DOMAIN obj THEN obj[key] ELSE UNDEF

----------------------------------------------------------------------------
\* Bounds

\* largest number of entries of an actions map
MaxActions == 2

\* largest number of renders of ServerActionsResults with one results object
MaxRenders == 2

\* largest number of results objects one mounted ServerActionsResults receives
MaxResultsObjects == 2

\* number of browser tabs showing a component
MaxTabs == 2

\* number of calls of onSubmit of the recipe forms
MaxSubmits == 2

\* number of writes of the recipe forms that fail to reach the store
MaxFailures == 1

\* number of createClient() calls of one component
MaxClientCalls == 2

\* number of auth events delivered to one component
MaxAuthEvents == 3

\* largest number of execute calls in progress at a time on one
\* useServerAction instance (1: calls do not overlap)
MaxCalls == 1

----------------------------------------------------------------------------
\* ServerActionResult<T>

SuccessResult(data) ==
    [success |-> TRUE, data |-> data,
     error |-> UNDEF, errorCode |-> UNDEF, statusCode |-> UNDEF]

FailureResult(error, errorCode, statusCode) ==
    [success |-> FALSE, data |-> UNDEF,
     error |-> error, errorCode |-> errorCode, statusCode |-> statusCode]

\* the data a successful action returns
DataValues == {"value", NULL, UNDEF}

\* the failures an action returns
FailureResults ==
    { FailureResult("Receta no encontrada", "NOT_FOUND", "404"),
      FailureResult("connection reset", UNDEF, UNDEF),
      FailureResult("", "E_QUOTA", "429") }

ResultObjects == { SuccessResult(d) : d \in DataValues } \cup FailureResults

\* the defaultValue of an ActionConfig
DefaultValues == {"fallback", NULL, UNDEF}

\* the searchParams prop: absent, or a promise of the page's parameters
SearchParamsValues == {UNDEF, "q=pasta"}

\* names of the entries of an actions map, in insertion order
ActionNames == <<"recipe", "comments", "related", "categories", "tags">>

KeysOf(n) == { ActionNames[i] : i \in 1..n }

Keys == DOMAIN actions

\* Object.entries(actions): position of a key
IndexOf(key) == CHOOSE i \in 1..Len(ActionNames) : ActionNames[i] = key

----------------------------------------------------------------------------
\* ServerActions

\* no error: processedErrors[key] = null
NoError == {}

\* processedErrors[key] for a failure
ActionError(result) ==
    { [error |-> OrElse(result.error, "Unknown error"),
       errorCode |-> result.errorCode,
       statusCode |-> result.statusCode] }

\* Promise.all rejects with the first rejection and fulfils when all
\* promises have fulfilled
PromiseAllSettledOnly(states) ==
    IF \A k \in DOMAIN states : states[k] \in {"fulfilled", "rejected"}
    THEN "fulfilled" ELSE "pending"

PromiseAll(states) ==
    IF \E k \in DOMAIN states : states[k] = "rejected" THEN "rejected"
    ELSE IF \A k \in DOMAIN states : states[k] = "fulfilled" THEN "fulfilled"
    ELSE "pending"

\* the state of the call once the promises are in the given states
Awaited(states) ==
    CASE PromiseAll(states) = "rejected" -> "rejected"
      [] PromiseAll(states) = "fulfilled" -> "settled"
      [] OTHER -> "awaiting"

\* config.defaultValue is recorded in defaults
HasDefault(config) == config.defaultValue # UNDEF /\ config.defaultValue # NULL

\* the default is read for processedData[key]
UsesDefault(result) == ~result.success \/ Nullish(result.data)

\* result.success ? (result.data ?? defaultValue) : defaultValue
ProcessData(result, defaultValue) ==
    IF result.success THEN Coalesce(result.data, defaultValue) ELSE defaultValue

\* result.success ? null : { error, errorCode, statusCode }
ProcessError(result) ==
    IF result.success THEN NoError ELSE ActionError(result)

InitServerActions ==
    /\ \E n \in 0..MaxActions :
          actions \in [KeysOf(n) -> [defaultValue : DefaultValues]]
    /\ searchParams \in SearchParamsValues
    /\ resolvedSearchParams = UNDEF
    /\ phase = "start"
    /\ opState = [k \in Keys |-> "notStarted"]
    /\ callArgs = [k \in Keys |-> <<>>]
    /\ results = EmptyObject
    /\ defaults = EmptyObject
    /\ processedData = EmptyObject
    /\ processedErrors = EmptyObject

\* const resolvedSearchParams = searchParams ? await searchParams : undefined
ResolveSearchParams ==
    /\ phase = "start"
    /\ resolvedSearchParams' = IF Falsy(searchParams) THEN UNDEF ELSE searchParams
    /\ phase' = IF Keys = {} THEN Awaited(opState) ELSE "mapping"
    /\ UNCHANGED <<actions, searchParams, opState, callArgs, results, defaults,
                   processedData, processedErrors>>

\* a map callback that calls config.action again when it is started
StartActionTwice(key) ==
    /\ phase = "mapping"
    /\ opState[key] = "notStarted"
    /\ \A k \in Keys : IndexOf(k) < IndexOf(key) => opState[k] # "notStarted"
    /\ opState' = [opState EXCEPT ![key] = "pending"]
    /\ callArgs' = [callArgs EXCEPT ![key] = <<resolvedSearchParams,
                                               resolvedSearchParams>>]
    /\ phase' = IF \A k \in Keys : opState'[k] # "notStarted"
                THEN "awaiting" ELSE "mapping"
    /\ UNCHANGED <<actions, searchParams, resolvedSearchParams, results, defaults,
                   processedData, processedErrors>>

\* Object.entries(actions).map(async ([key, config]) => { ... config.action(..)
\* the callbacks run in insertion order, each up to its await
StartAction(key) ==
    /\ phase = "mapping"
    /\ opState[key] = "notStarted"
    /\ \A k \in Keys : IndexOf(k) < IndexOf(key) => opState[k] # "notStarted"
    /\ opState' = [opState EXCEPT ![key] = "pending"]
    /\ callArgs' = [callArgs EXCEPT ![key] = Append(@, resolvedSearchParams)]
    /\ phase' = IF \A k \in Keys : opState'[k] # "notStarted"
                THEN "awaiting" ELSE "mapping"
    /\ UNCHANGED <<actions, searchParams, resolvedSearchParams, results, defaults,
                   processedData, processedErrors>>

\* the operation of key returns result: the rest of the map callback runs
ActionReturns(key, result) ==
    /\ phase \in {"awaiting", "rejected"}
    /\ opState[key] = "pending"
    /\ results' = Assign(results, key, result)
    /\ defaults' = IF HasDefault(actions[key])
                   THEN Assign(defaults, key, actions[key].defaultValue)
                   ELSE defaults
    /\ opState' = [opState EXCEPT ![key] = "fulfilled"]
    /\ phase' = IF phase = "awaiting" THEN Awaited(opState') ELSE phase
    /\ UNCHANGED <<actions, searchParams, resolvedSearchParams, callArgs,
                   processedData, processedErrors>>

\* the operation of key throws (its promise rejects): the map callback rejects
ActionThrows(key) ==
    /\ phase \in {"awaiting", "rejected"}
    /\ opState[key] = "pending"
    /\ opState' = [opState EXCEPT ![key] = "rejected"]
    /\ phase' = IF phase = "awaiting" THEN Awaited(opState') ELSE phase
    /\ UNCHANGED <<actions, searchParams, resolvedSearchParams, callArgs, results,
                   defaults, processedData, processedErrors>>

\* for (const key in results) { ... } and children(processedData, { errors })
ProcessAndRender ==
    /\ phase = "settled"
    /\ processedData' =
          [k \in DOMAIN results |-> ProcessData(results[k], Get(defaults, k))]
    /\ processedErrors' = [k \in DOMAIN results |-> ProcessError(results[k])]
    /\ phase' = "rendered"
    /\ UNCHANGED <<actions, searchParams, resolvedSearchParams, opState, callArgs,
                   results, defaults>>

NextServerActions ==
    \/ ResolveSearchParams
    \/ \E key \in Keys : StartAction(key)
    \/ \E key \in Keys : \E result \in ResultObjects : ActionReturns(key, result)
    \/ \E key \in Keys : ActionThrows(key)
    \/ ProcessAndRender

\* no ServerActions call is modelled
IdleServerActions ==
    /\ actions = EmptyObject
    /\ searchParams = UNDEF
    /\ resolvedSearchParams = UNDEF
    /\ phase = "start"
    /\ opState = EmptyObject
    /\ callArgs = EmptyObject
    /\ results = EmptyObject
    /\ defaults = EmptyObject
    /\ processedData = EmptyObject
    /\ processedErrors = EmptyObject

----------------------------------------------------------------------------
\* ERROR_MESSAGES and getErrorMessage (lib/constants/errors)

ERROR_MESSAGES ==
    [NOT_FOUND |-> "No se encontro el recurso solicitado",
     UNAUTHORIZED |-> "No tienes permiso para realizar esta accion",
     FORBIDDEN |-> "Acceso denegado",
     VALIDATION_ERROR |-> "Los datos proporcionados no son validos",
     NETWORK_ERROR |-> "Error de conexion. Verifica tu internet",
     SERVER_ERROR |-> "Error del servidor. Intenta de nuevo mas tarde",
     UNKNOWN |-> "Ocurrio un error inesperado"]

\* errorCode && ERROR_MESSAGES[errorCode]
IsMappedNever(errorCode) == FALSE

IsMapped(errorCode) ==
    /\ ~Falsy(errorCode)
    /\ errorCode \in DOMAIN ERROR_MESSAGES
    /\ ~Falsy(ERROR_MESSAGES[errorCode])

\* getErrorMessage(error, errorCode) of lib/constants
baseGetErrorMessage(error, errorCode) ==
    IF IsMapped(errorCode)
    THEN ERROR_MESSAGES[errorCode]
    ELSE OrElse(error, ERROR_MESSAGES.UNKNOWN)

----------------------------------------------------------------------------
\* ServerActionsResults

\* the results objects a ServerActions call hands over: every action returned
ResultsObjects ==
    UNION { [KeysOf(n) -> ResultObjects] : n \in 0..MaxActions }

\* useEffect(..., [results]): the effect runs after a render whose deps differ
\* from those of the previous render (Object.is), and after the first render
DepsAlwaysChanged(prev, next) == TRUE

DepsChanged(prev, next) == prev # next

\* for (const result of Object.values(results)) if (!result.success) toast.error(..)
\* (the toasts of the keys from position i on)
RECURSIVE EffectToasts(_, _, _)
EffectToasts(res, id, i) ==
    IF i > Len(ActionNames) THEN <<>>
    ELSE LET key == ActionNames[i] IN
         (IF key \in DOMAIN res /\ ~res[key].success
          THEN << [results |-> id, key |-> key,
                   message |-> baseGetErrorMessage(res[key].error,
                                                    res[key].errorCode)] >>
          ELSE <<>>)
         \o EffectToasts(res, id, i + 1)

InitServerActionsResults ==
    /\ propsResults \in ResultsObjects
    /\ resultsId = 1
    /\ renders = 0
    /\ committedDeps = 0
    /\ effectPending = FALSE
    /\ toasts = <<>>

\* no ServerActionsResults is modelled
IdleServerActionsResults ==
    /\ propsResults = EmptyObject
    /\ resultsId = 1
    /\ renders = 0
    /\ committedDeps = 0
    /\ effectPending = FALSE
    /\ toasts = <<>>

\* the component renders (mounts, or renders again) with the current props
Render ==
    /\ ~effectPending
    /\ renders < MaxRenders
    /\ renders' = renders + 1
    /\ effectPending' = DepsChanged(committedDeps, resultsId)
    /\ committedDeps' = resultsId
    /\ UNCHANGED <<propsResults, resultsId, toasts>>

\* the effect of the last render runs
RunEffect ==
    /\ effectPending
    /\ toasts' = toasts \o EffectToasts(propsResults, resultsId, 1)
    /\ effectPending' = FALSE
    /\ UNCHANGED <<propsResults, resultsId, renders, committedDeps>>

\* a later ServerActions call hands a new results object to the component
ReceiveResults(res) ==
    /\ renders > 0
    /\ ~effectPending
    /\ resultsId < MaxResultsObjects
    /\ propsResults' = res
    /\ resultsId' = resultsId + 1
    /\ renders' = 0
    /\ toasts' = <<>>
    /\ UNCHANGED <<committedDeps, effectPending>>

NextServerActionsResults ==
    \/ Render
    \/ RunEffect
    \/ \E res \in ResultsObjects : ReceiveResults(res)

----------------------------------------------------------------------------
\* useServerAction

Calls == 1..MaxCalls

\* options.messageError: absent, disabled, empty, or a custom message
MessageErrorValues == {UNDEF, NULL, "", "No se pudo eliminar la receta"}

\* options.messageSuccess
MessageSuccessValues == {UNDEF, "Receta eliminada!"}

\* ServerActionOptions: the two messages. The callbacks onSuccess, onError
\* and onFinally are drawn where execute reads them (options.onError?.(..)):
\* each is given or absent there, and a given one returns or throws.
OptionsValues ==
    [messageError : MessageErrorValues, messageSuccess : MessageSuccessValues]

\* the results an operation wrapped by execute returns
OperationResults == {SuccessResult("value")} \cup FailureResults

\* String(error) of what the operation throws
OperationErrors == {"Error: Failed to fetch"}

\* String(error) of what a callback throws
CallbackErrors == {"TypeError: callback failed"}

\* an execute call that has not been made
IdleCall ==
    [pc |-> "idle",
     options |-> [messageError |-> UNDEF, messageSuccess |-> UNDEF],
     settled |-> "pending", result |-> SuccessResult(UNDEF), thrown |-> UNDEF,
     completion |-> "pending", rejection |-> UNDEF,
     overlapped |-> FALSE, log |-> <<>>]

\* the call is between its first and its last statement
Active(call) == call.pc \notin {"idle", "done"}

\* an observable step of a call: toast.error, toast.success, setIsLoading, or
\* an optional call options.<callback>?.(args) with the callback given or not
Log(call, ev, args, given) ==
    [call EXCEPT !.log = Append(@, [ev |-> ev, args |-> args, given |-> given])]

\* getErrorMessage(result, customMessage) of the hook
getErrorMessage(result, customMessage) ==
    IF ~Falsy(customMessage) THEN customMessage
    ELSE baseGetErrorMessage(result.error, result.errorCode)

\* if (options.messageError !== null) toast.error(errorMessage)
ToastUnlessUndefined(call, errorMessage) ==
    IF call.options.messageError # UNDEF
    THEN Log(call, "toast.error", <<errorMessage>>, TRUE) ELSE call

ToastUnlessDisabled(call, errorMessage) ==
    IF call.options.messageError # NULL
    THEN Log(call, "toast.error", <<errorMessage>>, TRUE) ELSE call

\* await options.<callback>?.(args): the call waits at pc for a given callback
\* and goes on as next when there is none
OptionalCall(call, callback, args, given, pc, next) ==
    IF given
    THEN [Log(call, callback, args, TRUE) EXCEPT !.pc = pc]
    ELSE next

\* finally { setIsLoading(false); await options.onFinally?.() }
\* entered with the completion of the try or catch block
Finally(call, completion, rejection, onFinally) ==
    LET c1 == Log([call EXCEPT !.completion = completion, !.rejection = rejection],
                  "setIsLoading", <<"false">>, TRUE)
    IN  OptionalCall(c1, "onFinally", <<>>, onFinally, "onFinally",
                     [Log(c1, "onFinally", <<>>, FALSE) EXCEPT !.pc = "done"])

\* catch (error) { ... }
Catch(call, error, onError, onFinally) ==
    LET errorMessage == Coalesce(call.options.messageError, ERROR_MESSAGES.UNKNOWN)
        args == <<errorMessage, "UNKNOWN", "500", error>>
        c1 == ToastUnlessDisabled(call, errorMessage)
    IN  OptionalCall(c1, "onError", args, onError, "catchOnError",
                     Finally(Log(c1, "onError", args, FALSE), "false", UNDEF,
                             onFinally))

\* the try block after const result = await action(); callback is onError for
\* a failure and onSuccess for a success
AfterAction(call, result, callback, onFinally) ==
    IF ~result.success
    THEN LET errorMessage == getErrorMessage(result, call.options.messageError)
             args == <<errorMessage, result.errorCode, result.statusCode,
                       result.error>>
             c1 == ToastUnlessDisabled(call, errorMessage)
         IN  OptionalCall(c1, "onError", args, callback, "onError",
                          Finally(Log(c1, "onError", args, FALSE), "false", UNDEF,
                                  onFinally))
    ELSE LET args == <<result.data>>
             c1 == IF ~Falsy(call.options.messageSuccess)
                   THEN Log(call, "toast.success", <<call.options.messageSuccess>>,
                            TRUE)
                   ELSE call
         IN  OptionalCall(c1, "onSuccess", args, callback, "onSuccess",
                          Finally(Log(c1, "onSuccess", args, FALSE), "true", UNDEF,
                                  onFinally))

\* the awaited callback returned
AfterCallback(call, onFinally) ==
    CASE call.pc = "onError" -> Finally(call, "false", UNDEF, onFinally)
      [] call.pc = "onSuccess" -> Finally(call, "true", UNDEF, onFinally)
      [] call.pc = "catchOnError" -> Finally(call, "false", UNDEF, onFinally)
      [] call.pc = "onFinally" -> [call EXCEPT !.pc = "done"]

\* the awaited callback threw (or its promise rejected); onError is given when
\* it is the callback that threw
AfterCallbackThrew(call, error, onError, onFinally) ==
    LET c1 == Log(call, "threw", <<call.pc, error>>, TRUE)
    IN  CASE call.pc = "onError" -> Catch(c1, error, TRUE, onFinally)
          [] call.pc = "onSuccess" -> Catch(c1, error, onError, onFinally)
          [] call.pc = "catchOnError" -> Finally(c1, "threw", error, onFinally)
          [] call.pc = "onFinally" ->
                [c1 EXCEPT !.pc = "done", !.completion = "threw", !.rejection = error]

\* isLoading after a step that took the call from before to after:
\* setIsLoading(false) runs when the finally block is entered
LoadingOnlyAfterSuccess(loading, before, after) ==
    IF before.pc # "onFinally" /\ after.pc \in {"onFinally", "done"}
       /\ after.completion = "true"
    THEN FALSE ELSE loading

LoadingAfter(loading, before, after) ==
    IF before.pc # "onFinally" /\ after.pc \in {"onFinally", "done"}
    THEN FALSE ELSE loading

InitUseServerAction ==
    /\ isLoading = FALSE
    /\ calls = [c \in Calls |-> IdleCall]

\* execute(action, options) up to await action(); the call takes the first
\* slot that holds no call in progress
Execute(c, options) ==
    /\ ~Active(calls[c])
    /\ \A d \in DOMAIN calls : d < c => Active(calls[d])
    /\ isLoading' = TRUE
    /\ LET overlaps == \E d \in DOMAIN calls : Active(calls[d])
       IN  calls' = [d \in DOMAIN calls |->
                IF d = c
                THEN Log([IdleCall EXCEPT !.pc = "action", !.options = options,
                                          !.overlapped = overlaps],
                         "setIsLoading", <<"true">>, TRUE)
                ELSE IF Active(calls[d])
                     THEN [calls[d] EXCEPT !.overlapped = TRUE]
                     ELSE calls[d]]

\* the step of call c that leads from calls[c] to after
Step(c, after) ==
    /\ calls' = [calls EXCEPT ![c] = after]
    /\ isLoading' = LoadingAfter(isLoading, calls[c], after)

\* the operation of call c returns a result object
OperationReturns(c, result, callback, onFinally) ==
    /\ calls[c].pc = "action"
    /\ Step(c, AfterAction([calls[c] EXCEPT !.settled = "returned",
                                            !.result = result],
                           result, callback, onFinally))

\* the operation of call c throws
OperationThrows(c, error, onError, onFinally) ==
    /\ calls[c].pc = "action"
    /\ Step(c, Catch([calls[c] EXCEPT !.settled = "threw", !.thrown = error],
                     error, onError, onFinally))

\* the callback call c awaits returns
CallbackReturns(c, onFinally) ==
    /\ calls[c].pc \in {"onError", "onSuccess", "catchOnError", "onFinally"}
    /\ Step(c, AfterCallback(calls[c], onFinally))

\* the callback call c awaits throws
CallbackThrows(c, error, onError, onFinally) ==
    /\ calls[c].pc \in {"onError", "onSuccess", "catchOnError", "onFinally"}
    /\ Step(c, AfterCallbackThrew(calls[c], error, onError, onFinally))

NextUseServerAction ==
    \/ \E c \in DOMAIN calls : \E options \in OptionsValues : Execute(c, options)
    \/ \E c \in DOMAIN calls : \E result \in OperationResults :
          \E callback, onFinally \in BOOLEAN :
              OperationReturns(c, result, callback, onFinally)
    \/ \E c \in DOMAIN calls : \E error \in OperationErrors :
          \E onError, onFinally \in BOOLEAN :
              OperationThrows(c, error, onError, onFinally)
    \/ \E c \in DOMAIN calls : \E onFinally \in BOOLEAN : CallbackReturns(c, onFinally)
    \/ \E c \in DOMAIN calls : \E error \in CallbackErrors :
          \E onError, onFinally \in BOOLEAN :
              CallbackThrows(c, error, onError, onFinally)

\* two execute calls of one instance can be in progress at a time: the hook
\* does not serialize them (execute is not guarded by isLoading)
OverlappingCalls == 1..(MaxCalls + 1)

\* the options of a call without messages
DefaultOptions == [messageError |-> UNDEF, messageSuccess |-> UNDEF]

InitOverlappingCalls ==
    /\ isLoading = FALSE
    /\ calls = [c \in OverlappingCalls |-> IdleCall]

NextOverlappingCalls ==
    \/ \E c \in DOMAIN calls : Execute(c, DefaultOptions)
    \/ \E c \in DOMAIN calls : \E result \in OperationResults :
          \E callback, onFinally \in BOOLEAN :
              OperationReturns(c, result, callback, onFinally)
    \/ \E c \in DOMAIN calls : \E error \in OperationErrors :
          \E onError, onFinally \in BOOLEAN :
              OperationThrows(c, error, onError, onFinally)
    \/ \E c \in DOMAIN calls : \E onFinally \in BOOLEAN :
          CallbackReturns(c, onFinally)
    \/ \E c \in DOMAIN calls : \E error \in CallbackErrors :
          \E onError, onFinally \in BOOLEAN :
              CallbackThrows(c, error, onError, onFinally)

\* no useServerAction instance is modelled
IdleUseServerAction ==
    /\ isLoading = FALSE
    /\ calls = [c \in {} |-> IdleCall]

----------------------------------------------------------------------------
\* Data store: likes, bookmarks and recipe_notes, with their constraints and
\* row-level policies; auth.uid() is the user of the browser session

Users == {"ana", "beto"}


\* String.prototype.trim on the strings of the model that carry whitespace
TrimmedForm ==
    [s \in {"  ", "          ", " Mas horno ", " sal "} |->
        CASE s \in {"  ", "          "} -> ""
          [] s = " Mas horno " -> "Mas horno"
          [] s = " sal " -> "sal"]

TrimNothing(s) == s

Trim(s) == IF s \in DOMAIN TrimmedForm THEN TrimmedForm[s] ELSE s

\* a store call that did not reach the store
NetworkError == "TypeError: Failed to fetch"

\* SQLSTATE of a unique violation and of a row-level-security violation
UniqueViolation == "23505"
PolicyViolation == "42501"

\* the smallest id no row and no client holds (uuid_generate_v4)
FreshId(used) == CHOOSE i \in 1..(Cardinality(used) + 1) : i \notin used

EmptyDb == [likes |-> {}, bookmarks |-> {}, recipe_notes |-> {}]

\* UNIQUE(user_id, recipe_id) / PRIMARY KEY (user_id, recipe_id)
UniqueNever(rows, user_id, recipe_id) == FALSE

UniqueUserRecipe(rows, user_id, recipe_id) ==
    \E row \in rows : row.user_id = user_id /\ row.recipe_id = recipe_id

\* "Users can manage their own ..." FOR ALL USING (auth.uid() = user_id)
ManageOwnPolicy(uid, user_id) == uid # NULL /\ uid = user_id

\* "Users can view their own notes" and "Users can view public notes"
NotesSelectPolicy(uid, note) ==
    \/ (uid # NULL /\ uid = note.user_id)
    \/ note.is_private = FALSE

\* insert of one row [user_id, recipe_id, ...] into a table of the store:
\* <<error, table after>>
InsertRow(rows, uid, row) ==
    IF ~ManageOwnPolicy(uid, row.user_id) THEN <<PolicyViolation, rows>>
    ELSE IF UniqueUserRecipe(rows, row.user_id, row.recipe_id)
         THEN <<UniqueViolation, rows>>
         ELSE <<NULL, rows \cup {row}>>

\* delete().eq('user_id', user_id).eq('recipe_id', recipe_id): the rows the
\* policy lets the session see and the filter matches; never an error
DeleteUserRecipe(rows, uid, user_id, recipe_id) ==
    { row \in rows : ~(/\ ManageOwnPolicy(uid, row.user_id)
                       /\ row.user_id = user_id
                       /\ row.recipe_id = recipe_id) }

\* update(...).eq('id', id).eq('user_id', user_id) on recipe_notes
UpdateNote(rows, uid, id, user_id, content) ==
    { IF /\ ManageOwnPolicy(uid, row.user_id)
         /\ row.id = id /\ row.user_id = user_id
      THEN [row EXCEPT !.content = content] ELSE row : row \in rows }

\* delete().eq('id', id).eq('user_id', user_id) on recipe_notes
DeleteNote(rows, uid, id, user_id) ==
    { row \in rows : ~(/\ ManageOwnPolicy(uid, row.user_id)
                       /\ row.id = id /\ row.user_id = user_id) }

----------------------------------------------------------------------------
\* LikeButton, BookmarkButton and RecipeNotes, one component per browser tab;
\* the tabs show the same component (components of different kinds share no
\* table). Besides its status check a component has one store call in flight
\* at a time.

Tabs == 1..MaxTabs

\* the components; BookmarkButton is modelled in both forms it has in the
\* source, with and without the isChecking / isMounted guards
Components ==
    { <<"LikeButton", "like-button.tsx">>,
      <<"BookmarkButton", "bookmark-button.tsx">>,
      <<"BookmarkButton", "part_013">>,
      <<"RecipeNotes", "recipe-notes.tsx">> }

\* the component keeps isMounted and isChecking
Guarded(tab) == tab.source \in {"like-button.tsx", "part_013"}

\* the table a toggle button writes
TableOf(tab) == IF tab.component = "LikeButton" THEN "likes" ELSE "bookmarks"

\* the recipe page the components are on (props.recipeId)
recipeId == "r1"

\* what the user types as a new note, and as the new text of a note
NewNoteValues == {"Menos sal", "  "}
EditContentValues == {" Mas horno ", "  "}

\* the state of a component after its first render (initialLiked = false,
\* initialCount = 0, initialBookmarked = false)
InitialTab(component) ==
    [component |-> component[1], source |-> component[2],
     mounted |-> TRUE,
     userId |-> NULL,
     isChecking |-> component[2] \in {"like-button.tsx", "part_013"},
     check |-> IF component[1] = "LikeButton" THEN "count" ELSE "getUser",
     isOn |-> FALSE, likeCount |-> 0,
     isLoading |-> component[1] = "RecipeNotes",
     previousState |-> FALSE, previousCount |-> 0,
     pc |-> "idle", op |-> "none", target |-> 0, error |-> NULL,
     notes |-> <<>>, saving |-> FALSE,
     toasts |-> <<>>]

\* what is left of a component: its state while it is mounted; after the
\* unmount only what the handler in flight holds (its locals and the call)
Discard(tab) ==
    IF tab.mounted THEN tab
    ELSE [InitialTab(<<tab.component, tab.source>>) EXCEPT
            !.mounted = FALSE, !.check = "done", !.isChecking = FALSE,
            !.isLoading = FALSE,
            !.pc = tab.pc, !.op = tab.op, !.error = tab.error,
            !.toasts = tab.toasts,
            !.userId = IF tab.pc = "idle" THEN NULL ELSE tab.userId,
            !.previousState = tab.previousState,
            !.previousCount = tab.previousCount,
            !.target = tab.target]

\* the handler returned: its locals are gone
Returned(tab) ==
    Discard([tab EXCEPT !.pc = "idle", !.op = "none", !.previousState = FALSE,
                        !.previousCount = 0, !.target = 0, !.error = NULL,
                        !.toasts = <<>>])

\* no handler returned in the last step
NoOutcome == [error |-> NULL, toasts |-> <<>>, ignored |-> FALSE]

\* a handler returned in the last step: the error of its store call and the
\* toasts it showed
Outcome(after) ==
    [error |-> after.error, toasts |-> after.toasts, ignored |-> FALSE]

Toast(tab, kind, message) ==
    [tab EXCEPT !.toasts = Append(@, [kind |-> kind, message |-> message])]

\* a state setter called after the component unmounted does nothing
SetState(tab, next) == IF tab.mounted THEN next ELSE tab

InitClients ==
    /\ db = EmptyDb
    /\ session \in {"ana", NULL}
    /\ outcome = NoOutcome
    /\ \E component \in Components : tabs = [c \in Tabs |-> InitialTab(component)]

\* one LikeButton or BookmarkButton, on a recipe the user may have liked or
\* bookmarked before
InitToggleButton ==
    /\ session \in {"ana", NULL}
    /\ outcome = NoOutcome
    /\ \E component \in Components \ {<<"RecipeNotes", "recipe-notes.tsx">>} :
          /\ tabs = [c \in {1} |-> InitialTab(component)]
          /\ \E before \in BOOLEAN :
                db = IF ~before THEN EmptyDb
                     ELSE [EmptyDb EXCEPT
                             ![TableOf(tabs[1])] =
                                { IF component[1] = "LikeButton"
                                  THEN [user_id |-> "ana", recipe_id |-> recipeId]
                                  ELSE [id |-> 1, user_id |-> "ana",
                                        recipe_id |-> recipeId] }]

\* one RecipeNotes component
InitRecipeNotes ==
    /\ db = EmptyDb
    /\ session \in {"ana", NULL}
    /\ outcome = NoOutcome
    /\ tabs = [c \in {1} |-> InitialTab(<<"RecipeNotes", "recipe-notes.tsx">>)]

\* the user has signed in before: is signed in, or a component or a row
\* carries the user's id
Known(user) ==
    \/ session = user
    \/ \E c \in DOMAIN tabs : tabs[c].userId = user
    \/ \E table \in {"likes", "bookmarks", "recipe_notes"} :
          \E row \in db[table] : row.user_id = user

\* the session of the browser changes: sign in, sign out, another account.
\* The first account to sign in is "ana" (the accounts are interchangeable).
AuthStateChange(user) ==
    /\ session # user
    /\ user = "beto" => Known("ana")
    /\ session' = user
    /\ UNCHANGED <<db, tabs>> /\ outcome' = NoOutcome

\* the cleanup of useEffect(() => { ... return () => { isMounted = false } })
Unmount(c) ==
    /\ tabs[c].mounted
    /\ tabs' = [tabs EXCEPT ![c] = Discard([@ EXCEPT !.mounted = FALSE])]
    /\ UNCHANGED <<db, session>> /\ outcome' = NoOutcome

\* checkLikeStatus: the count query returns
CheckCountReturns(c, ok) ==
    LET tab == tabs[c]
        count == IF ok THEN Cardinality({ row \in db.likes :
                                            row.recipe_id = recipeId })
                 ELSE 0
    IN  /\ tab.check = "count"
        /\ tabs' = [tabs EXCEPT ![c] =
              IF ~tab.mounted THEN [tab EXCEPT !.check = "done"]
              ELSE [tab EXCEPT !.likeCount = count, !.check = "getUser"]]
        /\ UNCHANGED <<db, session>> /\ outcome' = NoOutcome

\* checkLikeStatus / checkBookmarkStatus / loadNotes: auth.getUser() returns
CheckGetUserReturns(c) ==
    LET tab == tabs[c]
    IN  /\ tab.check = "getUser"
        /\ tabs' = [tabs EXCEPT ![c] =
              IF Guarded(tab) /\ ~tab.mounted THEN [tab EXCEPT !.check = "done"]
              ELSE IF tab.component = "RecipeNotes" /\ ~tab.mounted
                   THEN [tab EXCEPT !.check = "done"]
              ELSE IF session = NULL
                   THEN [tab EXCEPT !.check = "done", !.isChecking = FALSE,
                                    !.isLoading = IF tab.component = "RecipeNotes"
                                                  THEN FALSE ELSE @]
              ELSE [tab EXCEPT !.userId = session, !.check = "select"]]
        /\ UNCHANGED <<db, session>> /\ outcome' = NoOutcome

\* order('created_at', { ascending: false }): ids stand for creation order
RECURSIVE NewestFirst(_)
NewestFirst(rows) ==
    IF rows = {} THEN <<>>
    ELSE LET newest == CHOOSE note \in rows :
                           \A other \in rows : other.id <= note.id
         IN  <<newest>> \o NewestFirst(rows \ {newest})

\* the rows of db.recipe_notes the select of loadNotes returns
OwnNotes(uid, user_id, recipe_id) ==
    LET rows == { note \in db.recipe_notes :
                    /\ NotesSelectPolicy(uid, note)
                    /\ note.recipe_id = recipe_id /\ note.user_id = user_id }
    IN  NewestFirst(rows)

\* the status query (select('id') ... maybeSingle(), or the notes of the user)
\* returns
CheckSelectReturns(c, ok) ==
    LET tab == tabs[c]
        table == IF tab.component = "LikeButton" THEN db.likes ELSE db.bookmarks
        data == ok /\ \E row \in table :
                        /\ row.user_id = tab.userId /\ row.recipe_id = recipeId
                        /\ (tab.component = "LikeButton"
                              \/ ManageOwnPolicy(session, row.user_id))
    IN  /\ tab.check = "select"
        /\ tabs' = [tabs EXCEPT ![c] =
              IF tab.component = "RecipeNotes"
              THEN IF ~tab.mounted THEN [tab EXCEPT !.check = "done"]
                   ELSE [tab EXCEPT !.check = "done", !.isLoading = FALSE,
                            !.notes = IF ok THEN OwnNotes(session, tab.userId,
                                                          recipeId)
                                      ELSE @]
              ELSE IF Guarded(tab) /\ ~tab.mounted
                   THEN [tab EXCEPT !.check = "done"]
              ELSE [tab EXCEPT !.check = "done", !.isOn = data,
                               !.isChecking = FALSE]]
        /\ UNCHANGED <<db, session>> /\ outcome' = NoOutcome

\* "Prevent rapid clicks": if (isLoading) return
BusyNever(tab) == FALSE

Busy(tab) == tab.isLoading

\* handleToggleLike / handleToggleBookmark up to the await of the write, or
\* to the return that ends it before; where isChecking is kept the button is
\* disabled while it is set
handleToggle(c) ==
    LET tab == tabs[c]
        start == [tab EXCEPT !.toasts = <<>>, !.op = "toggle", !.error = NULL]
    IN  /\ tab.component \in {"LikeButton", "BookmarkButton"}
        /\ tab.mounted
        /\ ~(Guarded(tab) /\ tab.isChecking)
        /\ outcome' = IF tab.userId = NULL
                      THEN [NoOutcome EXCEPT
                              !.toasts = <<[kind |-> "error", message |->
                                 IF tab.component = "LikeButton"
                                 THEN "Debes iniciar sesion para dar like"
                                 ELSE "Debes iniciar sesion para guardar recetas"]>>]
                      ELSE IF Busy(tab)
                           THEN [NoOutcome EXCEPT !.ignored = TRUE]
                           ELSE NoOutcome
        /\ tabs' = [tabs EXCEPT ![c] =
              IF tab.userId = NULL \/ Busy(tab) THEN tab
              ELSE [start EXCEPT !.isLoading = TRUE,
                                 !.previousState = tab.isOn,
                                 !.previousCount = tab.likeCount,
                                 !.isOn = ~tab.isOn,
                                 !.likeCount = IF tab.component = "LikeButton"
                                               THEN (IF tab.isOn THEN @ - 1
                                                     ELSE @ + 1)
                                               ELSE @,
                                 !.pc = "write"]]
        /\ UNCHANGED <<db, session>>

\* catch { ... } of the toggle handlers: the revert of the optimistic update
RevertNever(tab) == tab

Revert(tab) ==
    LET message == IF tab.component = "LikeButton"
                   THEN "Error al actualizar like"
                   ELSE "Error al actualizar guardados"
        reverted == [tab EXCEPT !.isOn = tab.previousState,
                                !.likeCount = IF tab.component = "LikeButton"
                                              THEN tab.previousCount ELSE @]
    IN  IF Guarded(tab)
        THEN IF tab.mounted THEN Toast(reverted, "error", message) ELSE tab
        ELSE Toast(SetState(tab, reverted), "error", message)

\* the rest of the try block after a write without error
Keep(tab) ==
    IF tab.component = "LikeButton" THEN tab
    ELSE IF Guarded(tab) /\ ~tab.mounted THEN tab
    ELSE Toast(tab, "success",
               IF tab.previousState THEN "Receta eliminada de guardados"
               ELSE "Receta guardada")

\* the write of a toggle returns: delete when the state was on, else insert
ToggleWriteReturns(c, ok) ==
    LET tab == tabs[c]
        table == db[TableOf(tab)]
        row == IF tab.component = "LikeButton"
               THEN [user_id |-> tab.userId, recipe_id |-> recipeId]
               ELSE [id |-> FreshId({ b.id : b \in db.bookmarks }),
                     user_id |-> tab.userId, recipe_id |-> recipeId]
        written ==
            IF ~ok THEN <<NetworkError, table>>
            ELSE IF tab.previousState
                 THEN <<NULL, DeleteUserRecipe(table, session, tab.userId,
                                               recipeId)>>
                 ELSE InsertRow(table, session, row)
        settled == [tab EXCEPT !.error = written[1]]
        after == IF written[1] # NULL THEN Revert(settled) ELSE Keep(settled)
    IN  /\ tab.pc = "write" /\ tab.op = "toggle"
        /\ db' = [db EXCEPT ![TableOf(tab)] = written[2]]
        /\ tabs' = [tabs EXCEPT ![c] =
              Returned(SetState(after, [after EXCEPT !.isLoading = FALSE]))]
        /\ outcome' = Outcome(after)
        /\ UNCHANGED session

\* ids of notes a row or a component holds
NoteIds ==
    { note.id : note \in db.recipe_notes }
        \cup UNION { { tabs[c].notes[i].id : i \in DOMAIN tabs[c].notes } :
                     c \in DOMAIN tabs }

\* handleAddNote up to its await; the form and the list are rendered once
\* loadNotes has finished (isLoading is false). The typed note (newNote, isPrivate) and the
\* edited text (editContent) are drawn where the request that carries them is
\* evaluated.
handleAddNote(c, newNote) ==
    LET tab == tabs[c]
    IN  /\ tab.component = "RecipeNotes" /\ tab.mounted /\ tab.pc = "idle"
        /\ ~tab.isLoading
        /\ ~tab.saving /\ tab.userId # NULL /\ Trim(newNote) # ""
        /\ tabs' = [tabs EXCEPT ![c] =
              [tab EXCEPT !.toasts = <<>>, !.op = "add", !.error = NULL,
                          !.saving = TRUE, !.pc = "write"]]
        /\ UNCHANGED <<db, session>> /\ outcome' = NoOutcome

\* the insert of handleAddNote returns
AddNoteReturns(c, ok, newNote, isPrivate) ==
    LET tab == tabs[c]
        row == [id |-> FreshId(NoteIds), user_id |-> tab.userId,
                recipe_id |-> recipeId, content |-> Trim(newNote),
                is_private |-> isPrivate]
        written == IF ~ok THEN <<NetworkError, db.recipe_notes>>
                   ELSE InsertRow(db.recipe_notes, session, row)
        settled == [tab EXCEPT !.error = written[1]]
        after == IF written[1] # NULL
                 THEN Toast(settled, "error", "Error al guardar la nota")
                 ELSE Toast(SetState(settled,
                              [settled EXCEPT !.notes = <<row>> \o @]),
                            "success", "Nota guardada")
    IN  /\ tab.pc = "write" /\ tab.op = "add" /\ Trim(newNote) # ""
        /\ db' = [db EXCEPT !.recipe_notes = written[2]]
        /\ tabs' = [tabs EXCEPT ![c] =
              Returned(SetState(after, [after EXCEPT !.saving = FALSE]))]
        /\ outcome' = Outcome(after)
        /\ UNCHANGED session

\* handleUpdateNote(noteId) up to its await, for a note the component lists
handleUpdateNote(c, i, editContent) ==
    LET tab == tabs[c]
    IN  /\ tab.component = "RecipeNotes" /\ tab.mounted /\ tab.pc = "idle"
        /\ ~tab.isLoading
        /\ i \in DOMAIN tab.notes
        /\ ~tab.saving /\ Trim(editContent) # ""
        /\ tabs' = [tabs EXCEPT ![c] =
              [tab EXCEPT !.toasts = <<>>, !.op = "update", !.error = NULL,
                          !.saving = TRUE,
                          !.target = tab.notes[i].id, !.pc = "write"]]
        /\ UNCHANGED <<db, session>> /\ outcome' = NoOutcome

\* if (error) toast.error(...) else { setNotes(...); toast.success(...) } of
\* handleUpdateNote
UpdateReports(tab, error, editContent) ==
    IF error # NULL
    THEN Toast(tab, "error", "Error al actualizar la nota")
    ELSE Toast(SetState(tab, [tab EXCEPT !.notes =
                    [i \in DOMAIN @ |->
                        IF @[i].id = tab.target
                        THEN [@[i] EXCEPT !.content = Trim(editContent)]
                        ELSE @[i]]]),
               "success", "Nota actualizada")

\* the update of handleUpdateNote returns
UpdateNoteReturns(c, ok, editContent) ==
    LET tab == tabs[c]
        rows == IF ok THEN UpdateNote(db.recipe_notes, session, tab.target,
                                      tab.userId, Trim(editContent))
                ELSE db.recipe_notes
        error == IF ok THEN NULL ELSE NetworkError
        settled == [tab EXCEPT !.error = error]
        after == UpdateReports(settled, error, editContent)
    IN  /\ tab.pc = "write" /\ tab.op = "update" /\ Trim(editContent) # ""
        /\ db' = [db EXCEPT !.recipe_notes = rows]
        /\ tabs' = [tabs EXCEPT ![c] =
              Returned(SetState(after, [after EXCEPT !.saving = FALSE]))]
        /\ outcome' = Outcome(after)
        /\ UNCHANGED session

\* handleDeleteNote(noteId) up to its await, for a note the component lists
handleDeleteNote(c, i) ==
    LET tab == tabs[c]
    IN  /\ tab.component = "RecipeNotes" /\ tab.mounted /\ tab.pc = "idle"
        /\ ~tab.isLoading
        /\ i \in DOMAIN tab.notes
        /\ tabs' = [tabs EXCEPT ![c] =
              [tab EXCEPT !.toasts = <<>>, !.op = "delete", !.error = NULL,
                          !.target = tab.notes[i].id, !.pc = "write"]]
        /\ UNCHANGED <<db, session>> /\ outcome' = NoOutcome

\* the delete of handleDeleteNote returns
DeleteNoteReturns(c, ok) ==
    LET tab == tabs[c]
        rows == IF ok THEN DeleteNote(db.recipe_notes, session, tab.target,
                                      tab.userId)
                ELSE db.recipe_notes
        error == IF ok THEN NULL ELSE NetworkError
        settled == [tab EXCEPT !.error = error]
        after == IF error # NULL
                 THEN Toast(settled, "error", "Error al eliminar la nota")
                 ELSE Toast(SetState(settled, [settled EXCEPT !.notes =
                               SelectSeq(@, LAMBDA n : n.id # tab.target)]),
                            "success", "Nota eliminada")
    IN  /\ tab.pc = "write" /\ tab.op = "delete"
        /\ db' = [db EXCEPT !.recipe_notes = rows]
        /\ tabs' = [tabs EXCEPT ![c] = Returned(after)]
        /\ outcome' = Outcome(after)
        /\ UNCHANGED session

\* LikeButton, BookmarkButton and the insertions of RecipeNotes
NextClients ==
    \/ \E user \in Users \cup {NULL} : AuthStateChange(user)
    \/ \E c \in DOMAIN tabs : Unmount(c)
    \/ \E c \in DOMAIN tabs : \E ok \in BOOLEAN : CheckCountReturns(c, ok)
    \/ \E c \in DOMAIN tabs : CheckGetUserReturns(c)
    \/ \E c \in DOMAIN tabs : \E ok \in BOOLEAN : CheckSelectReturns(c, ok)
    \/ \E c \in DOMAIN tabs : handleToggle(c)
    \/ \E c \in DOMAIN tabs : \E ok \in BOOLEAN : ToggleWriteReturns(c, ok)
    \/ \E c \in DOMAIN tabs : \E newNote \in NewNoteValues :
          handleAddNote(c, newNote)
    \/ \E c \in DOMAIN tabs : \E ok, isPrivate \in BOOLEAN :
          \E newNote \in NewNoteValues : AddNoteReturns(c, ok, newNote, isPrivate)

\* one button whose requests reach the store
NextToggleButton ==
    \/ \E c \in DOMAIN tabs : Unmount(c)
    \/ \E c \in DOMAIN tabs : CheckCountReturns(c, TRUE)
    \/ \E c \in DOMAIN tabs : CheckGetUserReturns(c)
    \/ \E c \in DOMAIN tabs : CheckSelectReturns(c, TRUE)
    \/ \E c \in DOMAIN tabs : handleToggle(c)
    \/ \E c \in DOMAIN tabs : \E ok \in BOOLEAN : ToggleWriteReturns(c, ok)

\* RecipeNotes with all its handlers
NextRecipeNotes ==
    \/ \E user \in Users \cup {NULL} : AuthStateChange(user)
    \/ \E c \in DOMAIN tabs : Unmount(c)
    \/ \E c \in DOMAIN tabs : CheckGetUserReturns(c)
    \/ \E c \in DOMAIN tabs : \E ok \in BOOLEAN : CheckSelectReturns(c, ok)
    \/ \E c \in DOMAIN tabs : \E newNote \in NewNoteValues :
          handleAddNote(c, newNote)
    \/ \E c \in DOMAIN tabs : \E ok, isPrivate \in BOOLEAN :
          \E newNote \in NewNoteValues : AddNoteReturns(c, ok, newNote, isPrivate)
    \/ \E c \in DOMAIN tabs : \E i \in DOMAIN tabs[c].notes :
          \E editContent \in EditContentValues :
              handleUpdateNote(c, i, editContent)
    \/ \E c \in DOMAIN tabs : \E ok \in BOOLEAN :
          \E editContent \in EditContentValues :
              UpdateNoteReturns(c, ok, editContent)
    \/ \E c \in DOMAIN tabs : \E i \in DOMAIN tabs[c].notes :
          handleDeleteNote(c, i)
    \/ \E c \in DOMAIN tabs : \E ok \in BOOLEAN : DeleteNoteReturns(c, ok)

\* no browser is modelled
IdleClients ==
    /\ db = EmptyDb
    /\ session = NULL
    /\ outcome = NoOutcome
    /\ tabs = [c \in {} |-> InitialTab(<<"LikeButton", "like-button.tsx">>)]

----------------------------------------------------------------------------
\* updateSession (middleware): one request at a time. A pathname is the
\* sequence of its pieces, "/" being a piece of its own, so that startsWith,
\* === and the regular expression are computed on the text.

Pathnames ==
    { <<"/">>,
      <<"/", "login">>,
      <<"/", "register">>,
      <<"/", "profile">>,
      <<"/", "profile", "/", "edit">>,
      <<"/", "profile", "s">>,
      <<"/", "my-recipes">>,
      <<"/", "bookmarks">>,
      <<"/", "recipes">>,
      <<"/", "recipes", "/", "new">>,
      <<"/", "recipes", "/", "new", "/">>,
      <<"/", "recipes", "/", "42">>,
      <<"/", "recipes", "/", "42", "/", "edit">>,
      <<"/", "recipes", "/", "/", "edit">>,
      <<"/", "recipes", "/", "42", "/", "7", "/", "edit">> }

\* query strings of a request: none, ?q=1, ?redirect=/profile
QueryStrings ==
    { <<>>, [k \in {"q"} |-> <<"1">>], [k \in {"redirect"} |-> <<"/", "profile">>] }

\* URLSearchParams.set
SearchParamsSet(query, name, value) ==
    [k \in DOMAIN query \cup {name} |->
        IF k = name THEN value ELSE query[k]]

StartsWithExactly(s, prefix) == s = prefix

\* String.prototype.startsWith
StartsWith(s, prefix) ==
    /\ Len(s) >= Len(prefix)
    /\ SubSeq(s, 1, Len(prefix)) = prefix

\* /^\/recipes\/[^/]+\/edit$/.test(pathname)
IsRecipeEdit(pathname) ==
    /\ Len(pathname) >= 6
    /\ SubSeq(pathname, 1, 3) = <<"/", "recipes", "/">>
    /\ SubSeq(pathname, Len(pathname) - 1, Len(pathname)) = <<"/", "edit">>
    /\ \A i \in 4..(Len(pathname) - 2) : pathname[i] # "/"

isAuthPage(pathname) ==
    \/ StartsWith(pathname, <<"/", "login">>)
    \/ StartsWith(pathname, <<"/", "register">>)

isProtectedPage(pathname) ==
    \/ StartsWith(pathname, <<"/", "profile">>)
    \/ StartsWith(pathname, <<"/", "my-recipes">>)
    \/ StartsWith(pathname, <<"/", "bookmarks">>)
    \/ pathname = <<"/", "recipes", "/", "new">>
    \/ IsRecipeEdit(pathname)

\* NextResponse.next({ request }), with the cookies setAll put on it
supabaseResponse(refreshed) == [kind |-> "next", cookies |-> refreshed]

\* NextResponse.redirect(url)
Redirect(pathname, query) ==
    [kind |-> "redirect", pathname |-> pathname, searchParams |-> query]

\* no request has been handled
NoRequest == [pathname |-> <<"/">>, searchParams |-> <<>>, user |-> NULL]

\* env.supabase.isConfigured is fixed by the environment of the deployment
InitUpdateSession ==
    /\ mw \in [isConfigured : BOOLEAN, pc : {"idle"}, request : {NoRequest},
               response : {NULL}]

\* a request arrives (user: the user of its session cookies, if any):
\* updateSession up to the first return or await
updateSession(pathname, query, user) ==
    LET request == [pathname |-> pathname, searchParams |-> query,
                    user |-> user]
    IN  /\ mw.pc \in {"idle", "done"}
        /\ mw' = IF ~mw.isConfigured
                 THEN [mw EXCEPT !.request = request, !.pc = "done",
                                 !.response = supabaseResponse(FALSE)]
                 ELSE [mw EXCEPT !.request = request, !.pc = "getUser",
                                 !.response = NULL]

\* the rest of updateSession after the getUser await
AfterGetUser(request, user, refreshed) ==
    IF user # NULL /\ isAuthPage(request.pathname)
    THEN Redirect(<<"/">>, request.searchParams)
    ELSE IF user = NULL /\ isProtectedPage(request.pathname)
         THEN Redirect(<<"/", "login">>,
                       SearchParamsSet(request.searchParams, "redirect",
                                       request.pathname))
         ELSE supabaseResponse(refreshed)

\* supabase.auth.getUser() returns; it may have refreshed the session cookies
\* through setAll
GetUserReturns(refreshed) ==
    /\ mw.pc = "getUser"
    /\ (refreshed => mw.request.user # NULL)
    /\ mw' = [mw EXCEPT !.pc = "done",
                        !.response = AfterGetUser(mw.request, mw.request.user,
                                                  refreshed)]

NextUpdateSession ==
    \/ \E pathname \in Pathnames : \E query \in QueryStrings :
          \E user \in Users \cup {NULL} :
              updateSession(pathname, query, user)
    \/ \E refreshed \in BOOLEAN : GetUserReturns(refreshed)

\* no middleware is modelled
IdleUpdateSession ==
    mw = [isConfigured |-> TRUE, pc |-> "idle", request |-> NoRequest,
          response |-> NULL]

----------------------------------------------------------------------------
\* Data store: recipes, the ingredients catalog, recipe_ingredients,
\* instructions, recipe_categories and recipe_tags

\* the values of the form fields that carry text; every one passes the zod
\* schema (names of 2..100 characters, contents of 10..1000)
BlankName == "  "
BlankContent == "          "

\* String.prototype.toLowerCase on the trimmed names of the model
LowerCaseForm ==
    [s \in {"Sal", "sal", "Ajo"} |->
        CASE s = "Sal" -> "sal"
          [] s = "sal" -> "sal"
          [] s = "Ajo" -> "ajo"]

NormalizeTrimOnly(name) == Trim(name)

\* ing.name.trim().toLowerCase()
Normalize(name) ==
    IF Trim(name) \in DOMAIN LowerCaseForm
    THEN LowerCaseForm[Trim(name)] ELSE Trim(name)

\* generateSlug(data.title): every form of the model has the same title
Slug == "tarta-de-manzana"

\* the message of update_recipe_atomic for a recipe the caller does not own
NotOwned == "Recipe not found or not owned by user"

\* a second tab of the browser of "ana"; every other browser is named after
\* its user
SecondTab == "ana (second tab)"

\* the user signed in in a browser
UserOf(b) == IF b = SecondTab THEN "ana" ELSE b

EmptyStore ==
    [recipes |-> {}, ingredients |-> {}, recipe_ingredients |-> {},
     instructions |-> {}, recipe_categories |-> {}, recipe_tags |-> {}]

\* EXISTS (SELECT 1 FROM recipes WHERE recipes.id = ... AND recipes.user_id =
\* auth.uid())
OwnsRecipe(st, uid, recipe_id) ==
    \E r \in st.recipes : r.id = recipe_id /\ r.user_id = uid

\* insert into recipes: WITH CHECK (auth.uid() = user_id), UNIQUE(user_id,
\* slug): <<error, store after, id of the new row>>
InsertRecipe(st, uid, user_id, slug) ==
    LET id == FreshId({ r.id : r \in st.recipes })
    IN  IF uid # user_id THEN <<PolicyViolation, st, 0>>
        ELSE IF \E r \in st.recipes : r.user_id = user_id /\ r.slug = slug
             THEN <<UniqueViolation, st, 0>>
             ELSE <<NULL,
                    [st EXCEPT !.recipes =
                        @ \cup {[id |-> id, user_id |-> user_id, slug |-> slug]}],
                    id>>

\* update({ ..., slug }).eq('id', recipeId) on recipes: USING (auth.uid() =
\* user_id) hides the rows of others (no row is changed, no error);
\* UNIQUE(user_id, slug)
UpdateRecipe(st, uid, recipe_id, slug) ==
    IF ~OwnsRecipe(st, uid, recipe_id) THEN <<NULL, st, recipe_id>>
    ELSE IF \E r \in st.recipes :
                r.id # recipe_id /\ r.user_id = uid /\ r.slug = slug
         THEN <<UniqueViolation, st, 0>>
         ELSE <<NULL,
                [st EXCEPT !.recipes =
                    { IF r.id = recipe_id THEN [r EXCEPT !.slug = slug] ELSE r :
                      r \in @ }],
                recipe_id>>

\* insert into ingredients, name TEXT NOT NULL UNIQUE
InsertIngredient(st, name) ==
    LET id == FreshId({ g.id : g \in st.ingredients })
    IN  IF \E g \in st.ingredients : g.name = name
        THEN <<UniqueViolation, st, 0>>
        ELSE <<NULL,
               [st EXCEPT !.ingredients = @ \cup {[id |-> id, name |-> name]}],
               id>>

\* insert of one row into recipe_ingredients, instructions, recipe_categories
\* or recipe_tags; key is the column that is unique together with recipe_id
InsertChild(st, uid, table, key, row) ==
    IF ~OwnsRecipe(st, uid, row.recipe_id) THEN <<PolicyViolation, st>>
    ELSE IF \E old \in st[table] :
                old.recipe_id = row.recipe_id /\ old[key] = row[key]
         THEN <<UniqueViolation, st>>
         ELSE <<NULL, [st EXCEPT ![table] = @ \cup {row}]>>

\* delete().eq('recipe_id', recipeId) on one of these tables
DeleteChildren(st, uid, table, recipe_id) ==
    IF ~OwnsRecipe(st, uid, recipe_id) THEN st
    ELSE [st EXCEPT ![table] = { row \in @ : row.recipe_id # recipe_id }]

\* the rows of a recipe in the order of a numeric column, as the loaders sort
\* them
RECURSIVE SortedBy(_, _)
SortedBy(rows, column) ==
    IF rows = {} THEN <<>>
    ELSE LET first == CHOOSE row \in rows :
                          \A other \in rows : row[column] <= other[column]
         IN  <<first>> \o SortedBy(rows \ {first}, column)

\* loadRecipeData / getRecipeById: the ingredient names and the instruction
\* contents of a recipe, in their stored order
LoadRecipe(st, recipe_id) ==
    LET links == SortedBy({ l \in st.recipe_ingredients :
                              l.recipe_id = recipe_id }, "order_index")
        steps == SortedBy({ s \in st.instructions :
                              s.recipe_id = recipe_id }, "step_number")
        NameOf(id) == (CHOOSE g \in st.ingredients : g.id = id).name
    IN  [ingredients |-> [k \in DOMAIN links |-> NameOf(links[k].ingredient_id)],
         instructions |-> [k \in DOMAIN steps |-> steps[k].content]]

----------------------------------------------------------------------------
\* create_recipe_atomic and update_recipe_atomic: the procedures are not part
\* of the sources; they are modelled from their contract (one transaction:
\* upsert the ingredients by normalized name, replace the ingredient links
\* with the order index by position, replace the instructions with step
\* numbers 1..N, replace the category links; any violated constraint undoes
\* the whole call)

RECURSIVE UpsertIngredients(_, _)
UpsertIngredients(st, names) ==
    IF names = <<>> THEN st
    ELSE LET name == Normalize(Head(names))
             next == IF \E g \in st.ingredients : g.name = name THEN st
                     ELSE InsertIngredient(st, name)[2]
         IN  UpsertIngredients(next, Tail(names))

ReplaceRecipeParts(st, recipe_id, p_ingredients, p_instructions, p_category_ids) ==
    LET cleared == [st EXCEPT
                       !.recipe_ingredients = { r \in @ : r.recipe_id # recipe_id },
                       !.instructions = { r \in @ : r.recipe_id # recipe_id },
                       !.recipe_categories = { r \in @ : r.recipe_id # recipe_id }]
        catalog == UpsertIngredients(cleared, p_ingredients)
        IdOf(name) == (CHOOSE g \in catalog.ingredients :
                           g.name = Normalize(name)).id
        after == [catalog EXCEPT
                     !.recipe_ingredients = @ \cup
                         { [recipe_id |-> recipe_id,
                            ingredient_id |-> IdOf(p_ingredients[k]),
                            order_index |-> k - 1] : k \in DOMAIN p_ingredients },
                     !.instructions = @ \cup
                         { [recipe_id |-> recipe_id, step_number |-> k,
                            content |-> p_instructions[k]] :
                           k \in DOMAIN p_instructions },
                     !.recipe_categories = @ \cup
                         { [recipe_id |-> recipe_id,
                            category_id |-> p_category_ids[k]] :
                           k \in DOMAIN p_category_ids }]
    IN  IF \E j, k \in DOMAIN p_ingredients :
               j # k /\ Normalize(p_ingredients[j]) = Normalize(p_ingredients[k])
        THEN <<UniqueViolation, st>>
        ELSE <<NULL, after>>

\* <<error, store after, id of the recipe>>
create_recipe_atomic(st, p_user_id, p_slug, p_ingredients, p_instructions, p_category_ids) ==
    LET recipe == InsertRecipe(st, p_user_id, p_user_id, p_slug)
        parts == ReplaceRecipeParts(recipe[2], recipe[3], p_ingredients,
                                    p_instructions, p_category_ids)
    IN  IF recipe[1] # NULL THEN <<recipe[1], st, 0>>
        ELSE IF parts[1] # NULL THEN <<parts[1], st, 0>>
        ELSE <<NULL, parts[2], recipe[3]>>

update_recipe_atomic(st, p_recipe_id, p_user_id, p_slug, p_ingredients, p_instructions, p_category_ids) ==
    LET recipe == UpdateRecipe(st, p_user_id, p_recipe_id, p_slug)
        parts == ReplaceRecipeParts(recipe[2], p_recipe_id, p_ingredients,
                                    p_instructions, p_category_ids)
    IN  IF ~OwnsRecipe(st, p_user_id, p_recipe_id) THEN <<NotOwned, st, 0>>
        ELSE IF recipe[1] # NULL THEN <<recipe[1], st, 0>>
        ELSE IF parts[1] # NULL THEN <<parts[1], st, 0>>
        ELSE <<NULL, parts[2], p_recipe_id>>

----------------------------------------------------------------------------
\* The recipe forms: the page /recipes/new, the page /recipes/[id]/edit and
\* RecipeForm in its two modes; one form per browser, the browser of each
\* user. A submit is one asynchronous call of onSubmit; it advances when the
\* request it awaits returns.

Pages == {"new/page.tsx", "edit/page.tsx", "RecipeForm create", "RecipeForm edit"}

IsRecipeForm(page) == page \in {"RecipeForm create", "RecipeForm edit"}

IsEdit(page) == page \in {"edit/page.tsx", "RecipeForm edit"}

\* what the user filled in: ingredient names, instruction contents, the
\* selected categories and (RecipeForm) tags
FormValues ==
    { [ingredients |-> <<"Sal", BlankName, "Ajo">>,
       instructions |-> <<BlankContent, "Mezclar todo", "Hornear 20 min">>,
       categories |-> <<"postres">>, tags |-> <<"facil">>],
      [ingredients |-> <<" sal ", "Sal">>,
       instructions |-> <<"Hornear 20 min">>,
       categories |-> <<>>, tags |-> <<>>],
      [ingredients |-> <<BlankName>>,
       instructions |-> <<"Mezclar todo">>,
       categories |-> <<>>, tags |-> <<>>],
      [ingredients |-> <<"Ajo">>,
       instructions |-> <<BlankContent>>,
       categories |-> <<>>, tags |-> <<>>] }

validIngredientsUnfiltered(data) == data.ingredients

\* data.ingredients.filter(i => i.name.trim())
validIngredients(data) ==
    SelectSeq(data.ingredients, LAMBDA name : Trim(name) # "")

\* data.instructions.filter(i => i.content.trim())
validInstructions(data) ==
    SelectSeq(data.instructions, LAMBDA content : Trim(content) # "")

\* the values of a form nobody filled in
NoData ==
    [ingredients |-> <<>>, instructions |-> <<>>, categories |-> <<>>,
     tags |-> <<>>]

\* a form nobody is submitting
IdleForm ==
    [page |-> "none", pc |-> "idle", data |-> NoData, user |-> NULL,
     recipeId |-> 0, i |-> 0, ingredientId |-> 0, loading |-> FALSE,
     failed |-> FALSE, error |-> NULL]

\* nothing was reported in the last step
NoReport ==
    [kind |-> "none", browser |-> NULL, page |-> "none", data |-> NoData,
     recipeId |-> 0, toasts |-> <<>>, push |-> NULL, error |-> NULL,
     failed |-> FALSE, loading |-> FALSE]

InitRecipes ==
    /\ store = EmptyStore
    /\ forms = [b \in Users |-> IdleForm]
    /\ report = NoReport
    /\ submits = 0
    /\ failures = 0

\* no form is modelled
IdleRecipes ==
    /\ store = EmptyStore
    /\ forms = [b \in {} |-> IdleForm]
    /\ report = NoReport
    /\ submits = 0
    /\ failures = 0

\* a write that does not reach the store counts against MaxFailures;
\* no step but onSubmit starts a submit
Fails(ok) ==
    /\ ~ok => failures < MaxFailures
    /\ failures' = IF ok THEN failures ELSE failures + 1
    /\ UNCHANGED submits

\* onSubmit returns (finally: setLoading(false)) with the toasts it showed and
\* the route it pushed
Return(b, form, shown, push, error) ==
    /\ forms' = [forms EXCEPT ![b] = IdleForm]
    /\ report' = [kind |-> "returned", browser |-> b, page |-> form.page,
                  data |-> form.data, recipeId |-> form.recipeId,
                  toasts |-> shown, push |-> push, error |-> error,
                  failed |-> form.failed, loading |-> FALSE]

\* onSubmit goes on to its next await
Continue(b, form) ==
    /\ forms' = [forms EXCEPT ![b] = form]
    /\ report' = NoReport

SuccessToast(page) ==
    [kind |-> "success",
     message |-> IF IsEdit(page) THEN "Receta actualizada exitosamente!"
                 ELSE "Receta creada exitosamente!"]

\* a form that does not tell a duplicate name from other errors
ErrorToastGeneric(page, error) ==
    [kind |-> "error",
     message |-> IF IsEdit(page) THEN "Error al actualizar la receta"
                 ELSE "Error al crear la receta"]

\* the toast for an error of the recipe write: the branches after
\* if (recipeError) of the pages, and handleError of RecipeForm
ErrorToast(page, error) ==
    [kind |-> "error",
     message |->
        IF error = UniqueViolation THEN "Ya tienes una receta con ese nombre"
        ELSE IF IsRecipeForm(page) /\ error = NotOwned
             THEN "No tienes permiso para editar esta receta"
        ELSE IF IsEdit(page) THEN "Error al actualizar la receta"
        ELSE "Error al crear la receta"]

\* toast.success(...); router.push(`/recipes/${id}`)
Done(b, form) ==
    Return(b, form, <<SuccessToast(form.page)>>, <<"recipes", form.recipeId>>,
           NULL)

\* onSubmit(data) up to its first return or await; the submit button is
\* disabled while loading. The first browser to submit is that of "ana" (the
\* browsers are interchangeable).
onSubmit(b, page, recipe_id, data) ==
    LET form == forms[b]
        invalid(message) ==
            /\ report' = [NoReport EXCEPT
                             !.kind = "onSubmit", !.browser = b, !.page = page,
                             !.data = data, !.loading = form.loading,
                             !.toasts = <<[kind |-> "error",
                                           message |-> message]>>]
            /\ UNCHANGED forms
    IN  /\ form.pc = "idle" /\ ~form.loading
        /\ submits < MaxSubmits
        /\ b # "ana" => submits > 0
        /\ submits' = submits + 1
        /\ IF IsEdit(page)
           THEN /\ \E r \in store.recipes : r.id = recipe_id
                /\ page = "edit/page.tsx" => OwnsRecipe(store, UserOf(b), recipe_id)
           ELSE recipe_id = 0
        /\ IF validIngredients(data) = <<>>
           THEN invalid("Agrega al menos un ingrediente con nombre")
           ELSE IF validInstructions(data) = <<>>
                THEN invalid("Agrega al menos un paso con contenido")
                ELSE /\ forms' = [forms EXCEPT ![b] =
                                      [IdleForm EXCEPT
                                         !.page = page, !.data = data,
                                         !.recipeId = recipe_id,
                                         !.pc = "getUser", !.loading = TRUE]]
                     /\ report' = [NoReport EXCEPT
                                     !.kind = "onSubmit", !.browser = b,
                                     !.page = page, !.data = data,
                                     !.loading = TRUE]
        /\ UNCHANGED <<store, failures>>

\* supabase.auth.getUser() returns the user of the browser, or none
SubmitGetUserReturns(b, signedIn) ==
    LET form == forms[b]
    IN  /\ form.pc = "getUser"
        /\ IF ~signedIn
           THEN Return(b, form, <<[kind |-> "error",
                                   message |-> "Debes iniciar sesion"]>>,
                       <<"login">>, NULL)
           ELSE Continue(b, [form EXCEPT
                               !.user = UserOf(b),
                               !.pc = IF IsRecipeForm(form.page) THEN "rpc"
                                      ELSE "recipe"])
        /\ UNCHANGED <<store, submits, failures>>

\* the position after the recipe row is written, or after the links of an
\* ingredient: the next ingredient, else the instructions
ToIngredient(form, k) ==
    IF k <= Len(validIngredients(form.data))
    THEN [form EXCEPT !.pc = "selectIngredient", !.i = k, !.ingredientId = 0]
    ELSE [form EXCEPT !.pc = IF IsEdit(form.page) THEN "deleteInstructions"
                             ELSE "insertInstruction",
                      !.i = 1, !.ingredientId = 0]

\* the insert (new page) or update (edit page) of the recipe row returns
RecipeWriteReturns(b, ok) ==
    LET form == forms[b]
        written ==
            IF ~ok THEN <<NetworkError, store, 0>>
            ELSE IF IsEdit(form.page)
                 THEN UpdateRecipe(store, form.user, form.recipeId, Slug)
                 ELSE InsertRecipe(store, form.user, form.user, Slug)
    IN  /\ form.pc = "recipe" /\ Fails(ok)
        /\ store' = written[2]
        /\ IF written[1] # NULL
           THEN Return(b, [form EXCEPT !.failed = TRUE],
                       <<ErrorToast(form.page, written[1])>>, NULL, written[1])
           ELSE Continue(b, IF IsEdit(form.page)
                            THEN [form EXCEPT !.pc = "deleteIngredients"]
                            ELSE ToIngredient([form EXCEPT
                                                 !.recipeId = written[3]], 1))

\* a delete().eq('recipe_id', recipeId) of the edit page returns; its result
\* is not looked at
DeleteOldReturns(b, ok) ==
    LET form == forms[b]
        table == CASE form.pc = "deleteIngredients" -> "recipe_ingredients"
                   [] form.pc = "deleteInstructions" -> "instructions"
                   [] OTHER -> "recipe_categories"
        next == [form EXCEPT !.failed = @ \/ ~ok]
    IN  /\ form.pc \in {"deleteIngredients", "deleteInstructions",
                        "deleteCategories"}
        /\ Fails(ok)
        /\ store' = IF ok THEN DeleteChildren(store, form.user, table,
                                              form.recipeId)
                    ELSE store
        /\ CASE form.pc = "deleteIngredients" ->
                    Continue(b, ToIngredient(next, 1))
             [] form.pc = "deleteInstructions" ->
                    Continue(b, [next EXCEPT !.pc = "insertInstruction", !.i = 1])
             [] OTHER ->
                    IF form.data.categories = <<>> THEN Done(b, next)
                    ELSE Continue(b, [next EXCEPT !.pc = "linkCategory", !.i = 1])

\* the select of the ingredient by its normalized name returns (the failing
\* requests of the model are writes)
SelectIngredientReturns(b) ==
    LET form == forms[b]
        name == Normalize(validIngredients(form.data)[form.i])
        existingIng == { g \in store.ingredients : g.name = name }
    IN  /\ form.pc = "selectIngredient"
        /\ Continue(b, IF existingIng # {}
                       THEN [form EXCEPT
                               !.pc = "linkIngredient",
                               !.ingredientId = (CHOOSE g \in existingIng : TRUE).id]
                       ELSE [form EXCEPT !.pc = "insertIngredient"])
        /\ UNCHANGED <<store, submits, failures>>

\* the insert into the catalog returns; if (ingError) continue
InsertIngredientReturns(b, ok) ==
    LET form == forms[b]
        name == Normalize(validIngredients(form.data)[form.i])
        written == IF ok THEN InsertIngredient(store, name)
                   ELSE <<NetworkError, store, 0>>
    IN  /\ form.pc = "insertIngredient" /\ Fails(ok)
        /\ store' = written[2]
        /\ Continue(b, IF written[1] # NULL
                       THEN ToIngredient([form EXCEPT !.failed = TRUE],
                                         form.i + 1)
                       ELSE [form EXCEPT !.pc = "linkIngredient",
                                         !.ingredientId = written[3]])

\* the insert into recipe_ingredients returns; its result is not looked at
LinkIngredientReturns(b, ok) ==
    LET form == forms[b]
        row == [recipe_id |-> form.recipeId,
                ingredient_id |-> form.ingredientId,
                order_index |-> form.i - 1]
        written == IF ok THEN InsertChild(store, form.user, "recipe_ingredients",
                                          "ingredient_id", row)
                   ELSE <<NetworkError, store>>
    IN  /\ form.pc = "linkIngredient" /\ Fails(ok)
        /\ store' = written[2]
        /\ Continue(b, ToIngredient([form EXCEPT !.failed = @ \/ written[1] # NULL],
                                    form.i + 1))

\* the rest of onSubmit of the pages after the instructions
AfterInstructions(b, form) ==
    IF IsEdit(form.page) THEN Continue(b, [form EXCEPT !.pc = "deleteCategories"])
    ELSE IF form.data.categories = <<>> THEN Done(b, form)
    ELSE Continue(b, [form EXCEPT !.pc = "linkCategory", !.i = 1])

\* the insert of one instruction returns; its result is not looked at
InsertInstructionReturns(b, ok) ==
    LET form == forms[b]
        row == [recipe_id |-> form.recipeId, step_number |-> form.i,
                content |-> Trim(validInstructions(form.data)[form.i])]
        written == IF ok THEN InsertChild(store, form.user, "instructions",
                                          "step_number", row)
                   ELSE <<NetworkError, store>>
        next == [form EXCEPT !.failed = @ \/ written[1] # NULL]
    IN  /\ form.pc = "insertInstruction" /\ Fails(ok)
        /\ store' = written[2]
        /\ IF form.i < Len(validInstructions(form.data))
           THEN Continue(b, [next EXCEPT !.i = form.i + 1])
           ELSE AfterInstructions(b, next)

\* the insert of one category link returns; its result is not looked at
LinkCategoryReturns(b, ok) ==
    LET form == forms[b]
        row == [recipe_id |-> form.recipeId,
                category_id |-> form.data.categories[form.i]]
        written == IF ok THEN InsertChild(store, form.user, "recipe_categories",
                                          "category_id", row)
                   ELSE <<NetworkError, store>>
        next == [form EXCEPT !.failed = @ \/ written[1] # NULL]
    IN  /\ form.pc = "linkCategory" /\ Fails(ok)
        /\ store' = written[2]
        /\ IF form.i < Len(form.data.categories)
           THEN Continue(b, [next EXCEPT !.i = form.i + 1])
           ELSE Done(b, next)

AfterRpcIgnoringError(b, form, error, id) ==
    Continue(b, [form EXCEPT !.recipeId = id,
                             !.pc = IF IsEdit(form.page) THEN "deleteTags"
                                    ELSE "insertTags"])

\* RecipeForm after the rpc: if (recipeError) { handleError(...); return },
\* else the tags
AfterRpc(b, form, error, id) ==
    IF error # NULL
    THEN Return(b, [form EXCEPT !.failed = TRUE],
                <<ErrorToast(form.page, error)>>, NULL, error)
    ELSE IF IsEdit(form.page)
         THEN Continue(b, [form EXCEPT !.pc = "deleteTags"])
         ELSE IF form.data.tags = <<>>
              THEN Done(b, [form EXCEPT !.recipeId = id])
              ELSE Continue(b, [form EXCEPT !.recipeId = id,
                                            !.pc = "insertTags"])

\* rpc('create_recipe_atomic', ...) / rpc('update_recipe_atomic', ...) returns
RpcReturns(b, ok) ==
    LET form == forms[b]
        ingredientsJson ==
            [k \in DOMAIN validIngredients(form.data) |->
                Normalize(validIngredients(form.data)[k])]
        instructionsJson ==
            [k \in DOMAIN validInstructions(form.data) |->
                Trim(validInstructions(form.data)[k])]
        called ==
            IF ~ok THEN <<NetworkError, store, 0>>
            ELSE IF IsEdit(form.page)
                 THEN update_recipe_atomic(store, form.recipeId, form.user,
                                           Slug, ingredientsJson,
                                           instructionsJson,
                                           form.data.categories)
                 ELSE create_recipe_atomic(store, form.user, Slug,
                                           ingredientsJson, instructionsJson,
                                           form.data.categories)
    IN  /\ form.pc = "rpc" /\ Fails(ok)
        /\ store' = called[2]
        /\ AfterRpc(b, [form EXCEPT !.error = called[1]], called[1], called[3])

\* a write of recipe_tags by RecipeForm returns (the delete of the edit mode,
\* the insert of the selected tags); its result is not looked at
TagsWriteReturns(b, ok) ==
    LET form == forms[b]
        rows == { [recipe_id |-> form.recipeId, tag_id |-> form.data.tags[k]] :
                  k \in DOMAIN form.data.tags }
        conflict == \E row \in rows : row \in store.recipe_tags
        error == IF ~ok THEN NetworkError
                 ELSE IF form.pc = "deleteTags" THEN NULL
                 ELSE IF ~OwnsRecipe(store, form.user, form.recipeId)
                      THEN PolicyViolation
                 ELSE IF conflict THEN UniqueViolation
                 ELSE NULL
        next == [form EXCEPT !.failed = @ \/ error # NULL]
    IN  /\ form.pc \in {"deleteTags", "insertTags"} /\ Fails(ok)
        /\ store' = IF error # NULL THEN store
                    ELSE IF form.pc = "deleteTags"
                         THEN DeleteChildren(store, form.user, "recipe_tags",
                                             form.recipeId)
                         ELSE [store EXCEPT !.recipe_tags = @ \cup rows]
        /\ IF form.pc = "deleteTags" /\ form.data.tags # <<>>
           THEN Continue(b, [next EXCEPT !.pc = "insertTags"])
           ELSE Done(b, next)

\* a request a submit awaits returns
RequestReturns ==
    \/ \E b \in DOMAIN forms : \E signedIn \in BOOLEAN :
          SubmitGetUserReturns(b, signedIn)
    \/ \E b \in DOMAIN forms : \E ok \in BOOLEAN : RecipeWriteReturns(b, ok)
    \/ \E b \in DOMAIN forms : \E ok \in BOOLEAN : DeleteOldReturns(b, ok)
    \/ \E b \in DOMAIN forms : SelectIngredientReturns(b)
    \/ \E b \in DOMAIN forms : \E ok \in BOOLEAN : InsertIngredientReturns(b, ok)
    \/ \E b \in DOMAIN forms : \E ok \in BOOLEAN : LinkIngredientReturns(b, ok)
    \/ \E b \in DOMAIN forms : \E ok \in BOOLEAN : InsertInstructionReturns(b, ok)
    \/ \E b \in DOMAIN forms : \E ok \in BOOLEAN : LinkCategoryReturns(b, ok)
    \/ \E b \in DOMAIN forms : \E ok \in BOOLEAN : RpcReturns(b, ok)
    \/ \E b \in DOMAIN forms : \E ok \in BOOLEAN : TagsWriteReturns(b, ok)

NextRecipes ==
    \/ \E b \in DOMAIN forms : \E page \in Pages : \E data \in FormValues :
          \E recipe_id \in {0} \cup { r.id : r \in store.recipes } :
              onSubmit(b, page, recipe_id, data)
    \/ RequestReturns

----------------------------------------------------------------------------
\* Two tabs of one user who owns two recipes: the same forms, opened in both
\* tabs of the browser of "ana"

\* the store after "ana" saved two recipes
TwoRecipes ==
    [EmptyStore EXCEPT
        !.recipes = {[id |-> 1, user_id |-> "ana", slug |-> Slug],
                     [id |-> 2, user_id |-> "ana", slug |-> "flan-casero"]},
        !.ingredients = {[id |-> 1, name |-> "sal"]},
        !.recipe_ingredients =
            { [recipe_id |-> r, ingredient_id |-> 1, order_index |-> 0] :
              r \in {1, 2} },
        !.instructions =
            { [recipe_id |-> r, step_number |-> 1, content |-> "Mezclar todo"] :
              r \in {1, 2} }]

\* what the user fills in in the two tabs
EditValues ==
    { [ingredients |-> <<"Sal", "Ajo">>,
       instructions |-> <<"Mezclar todo", "Hornear 20 min">>,
       categories |-> <<"postres">>, tags |-> <<"facil">>],
      [ingredients |-> <<"Ajo">>,
       instructions |-> <<"Hornear 20 min">>,
       categories |-> <<>>, tags |-> <<>>] }

InitEdits ==
    /\ store = TwoRecipes
    /\ forms = [b \in {"ana", SecondTab} |-> IdleForm]
    /\ report = NoReport
    /\ submits = 0
    /\ failures = 0

NextEdits ==
    \/ \E b \in DOMAIN forms : \E page \in Pages : \E data \in EditValues :
          \E recipe_id \in {0} \cup { r.id : r \in store.recipes } :
              onSubmit(b, page, recipe_id, data)
    \/ RequestReturns

----------------------------------------------------------------------------
\* createClient of the browser: a module-level variable holds the client
\* (let browserClient = null). Client instances are numbered from 1 in the
\* order createBrowserClient makes them; 0 stands for null.

NoClient == 0

\* the components that call createClient() when they render
Callers == {"Header", "AuthProvider", "LikeButton", "RecipeNotes"}

ReuseNever(browserClient) == FALSE

\* if (!browserClient) { ... } is skipped
Reuse(browserClient) == browserClient # NoClient

InitCreateClient ==
    sb \in [isConfigured : BOOLEAN, browserClient : {NoClient}, created : {0},
            returned : {[c \in Callers |-> <<>>]}]

\* one call of createClient() by a component; the function is synchronous,
\* so calls do not interleave
createClient(c) ==
    /\ Len(sb.returned[c]) < MaxClientCalls
    /\ IF ~sb.isConfigured
       THEN sb' = [sb EXCEPT !.returned[c] = Append(@, NoClient)]
       ELSE IF Reuse(sb.browserClient)
            THEN sb' = [sb EXCEPT !.returned[c] = Append(@, sb.browserClient)]
            ELSE sb' = [sb EXCEPT !.created = @ + 1,
                                  !.browserClient = sb.created + 1,
                                  !.returned[c] = Append(@, sb.created + 1)]

NextCreateClient == \E c \in Callers : createClient(c)

\* the module is not loaded
IdleCreateClient ==
    sb = [isConfigured |-> FALSE, browserClient |-> NoClient, created |-> 0,
          returned |-> [c \in {} |-> <<>>]]

----------------------------------------------------------------------------
\* AuthProvider and Header: each keeps the signed-in user in a state of its
\* own and subscribes to supabase.auth.onAuthStateChange. A handler that
\* fetches the profile awaits the fetch before it calls setUser.

AuthComponents == {"AuthProvider", "Header"}

AuthEvents == {"SIGNED_IN", "TOKEN_REFRESHED", "SIGNED_OUT"}

\* user === null
NoUser == [id |-> NULL, display_name |-> UNDEF]

\* { id, email, display_name: profile?.display_name || undefined, ... }
AuthUser(id, profile) ==
    [id |-> id, display_name |-> IF profile = "row" THEN "Chef" ELSE UNDEF]

\* the events for which the handler of the component fetches the profile
FetchesProfile(comp, event) ==
    IF comp = "AuthProvider" THEN event \in {"SIGNED_IN", "TOKEN_REFRESHED"}
    ELSE event = "SIGNED_IN"

\* useState(initialUser); no event was delivered yet
InitAuthState ==
    auth \in [AuthComponents ->
                [user : {NoUser, AuthUser("ana", "row")},
                 lastEvent : {"none"}, events : {0}, fetches : {{}}]]

\* the handler of the component is called with an event; session.user is
\* the given user for SIGNED_IN and TOKEN_REFRESHED
onAuthStateChange(comp, event, user) ==
    /\ auth[comp].events < MaxAuthEvents
    /\ auth' = [auth EXCEPT
          ![comp] = [user |-> IF event = "SIGNED_OUT" THEN NoUser ELSE @.user,
                     lastEvent |-> event,
                     events |-> @.events + 1,
                     fetches |-> IF FetchesProfile(comp, event)
                                 THEN @.fetches \cup
                                        {[n |-> @.events + 1, id |-> user]}
                                 ELSE @.fetches]]

\* the select on profiles of a handler returns with a row, with no row (data
\* null), or throws; the handler goes on to setUser. AuthProvider sets the
\* user without profile when the fetch throws, Header sets nothing then.
ProfileFetchReturns(comp, fetch, profile) ==
    /\ fetch \in auth[comp].fetches
    /\ auth' = [auth EXCEPT
          ![comp].fetches = @ \ {fetch},
          ![comp].user = IF profile = "throws" /\ comp = "Header" THEN @
                         ELSE AuthUser(fetch.id, profile)]

NextAuthState ==
    \/ \E comp \in AuthComponents : \E event \in AuthEvents : \E user \in Users :
          onAuthStateChange(comp, event, user)
    \/ \E comp \in AuthComponents : \E fetch \in auth[comp].fetches :
          \E profile \in {"row", "none", "throws"} :
              ProfileFetchReturns(comp, fetch, profile)

\* neither component is mounted
IdleAuth == auth = [comp \in {} |-> NoUser]

----------------------------------------------------------------------------
\* Specifications: each specification runs one component; the others rest

Init ==
    /\ InitServerActions
    /\ IdleServerActionsResults
    /\ IdleUseServerAction
    /\ IdleClients
    /\ IdleUpdateSession
    /\ IdleRecipes
    /\ IdleCreateClient
    /\ IdleAuth

Next ==
    /\ NextServerActions
    /\ UNCHANGED <<resultsVars, hookVars, clientVars, sessionVars, recipeVars,
                   singletonVars, authVars>>

Spec == Init /\ [][Next]_vars

InitResults ==
    /\ IdleServerActions
    /\ InitServerActionsResults
    /\ IdleUseServerAction
    /\ IdleClients
    /\ IdleUpdateSession
    /\ IdleRecipes
    /\ IdleCreateClient
    /\ IdleAuth

NextResults ==
    /\ NextServerActionsResults
    /\ UNCHANGED <<aggVars, hookVars, clientVars, sessionVars, recipeVars,
                   singletonVars, authVars>>

SpecResults == InitResults /\ [][NextResults]_vars

InitHook ==
    /\ IdleServerActions
    /\ IdleServerActionsResults
    /\ InitUseServerAction
    /\ IdleClients
    /\ IdleUpdateSession
    /\ IdleRecipes
    /\ IdleCreateClient
    /\ IdleAuth

NextHook ==
    /\ NextUseServerAction
    /\ UNCHANGED <<aggVars, resultsVars, clientVars, sessionVars, recipeVars,
                   singletonVars, authVars>>

SpecHook == InitHook /\ [][NextHook]_vars

InitOverlap ==
    /\ IdleServerActions
    /\ IdleServerActionsResults
    /\ InitOverlappingCalls
    /\ IdleClients
    /\ IdleUpdateSession
    /\ IdleRecipes
    /\ IdleCreateClient
    /\ IdleAuth

NextOverlap ==
    /\ NextOverlappingCalls
    /\ UNCHANGED <<aggVars, resultsVars, clientVars, sessionVars, recipeVars,
                   singletonVars, authVars>>

SpecOverlap == InitOverlap /\ [][NextOverlap]_vars

InitBrowser ==
    /\ IdleServerActions
    /\ IdleServerActionsResults
    /\ IdleUseServerAction
    /\ InitClients
    /\ IdleUpdateSession
    /\ IdleRecipes
    /\ IdleCreateClient
    /\ IdleAuth

NextBrowser ==
    /\ NextClients
    /\ UNCHANGED <<aggVars, resultsVars, hookVars, sessionVars, recipeVars,
                   singletonVars, authVars>>

SpecBrowser == InitBrowser /\ [][NextBrowser]_vars

InitNotes ==
    /\ IdleServerActions
    /\ IdleServerActionsResults
    /\ IdleUseServerAction
    /\ InitRecipeNotes
    /\ IdleUpdateSession
    /\ IdleRecipes
    /\ IdleCreateClient
    /\ IdleAuth

NextNotes ==
    /\ NextRecipeNotes
    /\ UNCHANGED <<aggVars, resultsVars, hookVars, sessionVars, recipeVars,
                   singletonVars, authVars>>

SpecNotes == InitNotes /\ [][NextNotes]_vars

InitOneButton ==
    /\ IdleServerActions
    /\ IdleServerActionsResults
    /\ IdleUseServerAction
    /\ InitToggleButton
    /\ IdleUpdateSession
    /\ IdleRecipes
    /\ IdleCreateClient
    /\ IdleAuth

NextOneButton ==
    /\ NextToggleButton
    /\ UNCHANGED <<aggVars, resultsVars, hookVars, sessionVars, recipeVars,
                   singletonVars, authVars>>

SpecOneButton == InitOneButton /\ [][NextOneButton]_vars

InitSession ==
    /\ IdleServerActions
    /\ IdleServerActionsResults
    /\ IdleUseServerAction
    /\ IdleClients
    /\ InitUpdateSession
    /\ IdleRecipes
    /\ IdleCreateClient
    /\ IdleAuth

NextSession ==
    /\ NextUpdateSession
    /\ UNCHANGED <<aggVars, resultsVars, hookVars, clientVars, recipeVars,
                   singletonVars, authVars>>

SpecSession == InitSession /\ [][NextSession]_vars

InitRecipe ==
    /\ IdleServerActions
    /\ IdleServerActionsResults
    /\ IdleUseServerAction
    /\ IdleClients
    /\ IdleUpdateSession
    /\ InitRecipes
    /\ IdleCreateClient
    /\ IdleAuth

NextRecipe ==
    /\ NextRecipes
    /\ UNCHANGED <<aggVars, resultsVars, hookVars, clientVars, sessionVars,
                   singletonVars, authVars>>

SpecRecipe == InitRecipe /\ [][NextRecipe]_vars

InitTwoTabs ==
    /\ IdleServerActions
    /\ IdleServerActionsResults
    /\ IdleUseServerAction
    /\ IdleClients
    /\ IdleUpdateSession
    /\ InitEdits
    /\ IdleCreateClient
    /\ IdleAuth

NextTwoTabs ==
    /\ NextEdits
    /\ UNCHANGED <<aggVars, resultsVars, hookVars, clientVars, sessionVars,
                   singletonVars, authVars>>

SpecTwoTabs == InitTwoTabs /\ [][NextTwoTabs]_vars

InitSingleton ==
    /\ IdleServerActions
    /\ IdleServerActionsResults
    /\ IdleUseServerAction
    /\ IdleClients
    /\ IdleUpdateSession
    /\ IdleRecipes
    /\ InitCreateClient
    /\ IdleAuth

NextSingleton ==
    /\ NextCreateClient
    /\ UNCHANGED <<aggVars, resultsVars, hookVars, clientVars, sessionVars,
                   recipeVars, authVars>>

SpecSingleton == InitSingleton /\ [][NextSingleton]_vars

InitAuth ==
    /\ IdleServerActions
    /\ IdleServerActionsResults
    /\ IdleUseServerAction
    /\ IdleClients
    /\ IdleUpdateSession
    /\ IdleRecipes
    /\ IdleCreateClient
    /\ InitAuthState

NextAuth ==
    /\ NextAuthState
    /\ UNCHANGED <<aggVars, resultsVars, hookVars, clientVars, sessionVars,
                   recipeVars, singletonVars>>

SpecAuth == InitAuth /\ [][NextAuth]_vars

----------------------------------------------------------------------------
\* Claims about ServerActions

FailedKeys == { k \in DOMAIN results : ~results[k].success }

ErrorKeys == { k \in DOMAIN processedErrors : processedErrors[k] # NoError }

\* C1: when the render function is called, data has exactly the action names
\* as keys, each holding the action's success data or its configured
\* defaultValue, and errors has the same keys, non-null exactly for the
\* failing actions.
C1_DataAndErrorsPerAction ==
    phase = "rendered" =>
        /\ DOMAIN processedData = Keys
        /\ DOMAIN processedErrors = Keys
        /\ \A k \in Keys :
              \/ results[k].success /\ processedData[k] = results[k].data
              \/ processedData[k] = actions[k].defaultValue
        /\ ErrorKeys = FailedKeys
        /\ Cardinality(ErrorKeys) = Cardinality(FailedKeys)

\* C2: the render function is called only after every action has settled, and
\* every action that succeeded has its success value in data, whatever the
\* other actions returned.
C2_NoShortCircuit ==
    phase = "rendered" =>
        /\ \A k \in Keys : opState[k] = "fulfilled"
        /\ \A k \in Keys : results[k].success => processedData[k] = results[k].data

C4_FallbackIffError ==
    phase = "rendered" =>
        \A k \in Keys :
            /\ results[k].success => processedData[k] = results[k].data
            /\ ~results[k].success => processedData[k] = actions[k].defaultValue
            /\ UsesDefault(results[k]) <=> processedErrors[k] # NoError

----------------------------------------------------------------------------
\* Claims about ServerActionsResults

\* the code-then-raw lookup, as the claim words it
C8_Lookup(result) ==
    IF result.errorCode \in DOMAIN ERROR_MESSAGES
    THEN ERROR_MESSAGES[result.errorCode]
    ELSE IF result.error # "" THEN result.error
    ELSE "Ocurrio un error inesperado"

\* number of toasts shown for action key of results object id
ToastCount(id, key) ==
    Cardinality({ i \in 1..Len(toasts) :
                    toasts[i].results = id /\ toasts[i].key = key })

\* C5: for one results object, exactly one error toast is shown per failed
\* action and none for a successful one, however often the component renders
\* again with the same object.
C5_OneToastPerFailure ==
    /\ \A i \in 1..Len(toasts) : ToastCount(toasts[i].results, toasts[i].key) = 1
    /\ (renders > 0 /\ ~effectPending) =>
          \A key \in DOMAIN propsResults :
              ToastCount(resultsId, key) = IF propsResults[key].success THEN 0 ELSE 1

\* every toast shows the text the code-then-raw lookup gives for its action
\* (the ServerActionsResults half of C8, checked under SpecResults)
ResultsToastLookup ==
    \A i \in 1..Len(toasts) :
        toasts[i].message = C8_Lookup(propsResults[toasts[i].key])

\* the component rendered again with a later results object, which holds a
\* failed and a successful action, and its effects have run
C5_Witness ==
    /\ renders >= 2
    /\ resultsId >= 2
    /\ ~effectPending
    /\ \E key \in DOMAIN propsResults : ~propsResults[key].success
    /\ \E key \in DOMAIN propsResults : propsResults[key].success
    /\ Len(toasts) >= 1

----------------------------------------------------------------------------
\* Claims about useServerAction

\* the steps ev of a call, in order
Events(call, ev) == SelectSeq(call.log, LAMBDA e : e.ev = ev)

\* the operation of the call returned a failure result or threw
OperationFailed(call) ==
    \/ call.settled = "returned" /\ ~call.result.success
    \/ call.settled = "threw"

\* C6: for an execute call that overlaps no other, isLoading is true while
\* the operation is in flight and false once execute has returned, whatever
\* the operation did.
C6_BusyWhileOperationRuns ==
    \A c \in Calls :
        ~calls[c].overlapped =>
            /\ calls[c].pc = "action" => isLoading
            /\ (calls[c].pc = "done" /\ \A d \in Calls : ~Active(calls[d]))
                  => ~isLoading

\* a call whose operation threw has returned and isLoading is false again
C6_Witness ==
    \E c \in Calls :
        /\ ~calls[c].overlapped
        /\ calls[c].pc = "done"
        /\ calls[c].settled = "threw"
        /\ \A d \in Calls : ~Active(calls[d])
        /\ ~isLoading

\* the message a failure resolves to when no override is given
C7_Resolved(call) ==
    IF call.settled = "threw"
    THEN "Ocurrio un error inesperado"
    ELSE baseGetErrorMessage(call.result.error, call.result.errorCode)

\* C7: when the operation fails and messageError is null, no error toast is
\* shown and onError is called with the resolved message; when messageError
\* is undefined the error toast with the resolved message is shown.
C7_NullDisablesToastOnly ==
    \A c \in Calls :
        OperationFailed(calls[c]) =>
            /\ calls[c].options.messageError = NULL =>
                  /\ Events(calls[c], "toast.error") = <<>>
                  /\ Len(Events(calls[c], "onError")) >= 1
                  /\ Events(calls[c], "onError")[1].args[1] = C7_Resolved(calls[c])
            /\ calls[c].options.messageError = UNDEF =>
                  /\ Len(Events(calls[c], "toast.error")) >= 1
                  /\ Events(calls[c], "toast.error")[1].args = <<C7_Resolved(calls[c])>>

\* a call with messageError null whose operation failed called a given onError
C7_Witness ==
    \E c \in Calls :
        /\ calls[c].options.messageError = NULL
        /\ calls[c].settled = "returned"
        /\ ~calls[c].result.success
        /\ calls[c].pc = "done"
        /\ Events(calls[c], "onError")[1].given

\* what a failure result makes execute do first, given the resolved message:
\* the toast unless disabled, then onError(message, errorCode, statusCode, error)
C8_ShowsThenCalls(call, message) ==
    LET toast == [ev |-> "toast.error", args |-> <<message>>, given |-> TRUE]
        args == <<message, call.result.errorCode, call.result.statusCode,
                  call.result.error>>
        at == IF call.options.messageError = NULL THEN 2 ELSE 3
    IN  /\ Len(call.log) >= at
        /\ call.options.messageError # NULL => call.log[2] = toast
        /\ call.log[at].ev = "onError"
        /\ call.log[at].args = args

\* C8 (as claimed): on a failure result the message is the messageError
\* override if one is provided, else the lookup; it is shown unless disabled
\* and onError is called with it, the code, the status and the raw error.
C8_OverrideElseLookup ==
    \A c \in Calls :
        (calls[c].settled = "returned" /\ ~calls[c].result.success) =>
            C8_ShowsThenCalls(calls[c],
                IF calls[c].options.messageError \notin {UNDEF, NULL}
                THEN calls[c].options.messageError
                ELSE C8_Lookup(calls[c].result))

\* C8 (amended): the override is used only when it is a non-empty string; an
\* empty override resolves by the lookup like an absent one.
C8_NonEmptyOverrideElseLookup ==
    \A c \in Calls :
        (calls[c].settled = "returned" /\ ~calls[c].result.success) =>
            C8_ShowsThenCalls(calls[c],
                IF calls[c].options.messageError \notin {UNDEF, NULL, ""}
                THEN calls[c].options.messageError
                ELSE C8_Lookup(calls[c].result))

\* a failure with a mapped code and a raw error text was resolved under an
\* empty override and a given onError was called
C8_Witness ==
    \E c \in Calls :
        /\ calls[c].settled = "returned"
        /\ calls[c].result.errorCode = "NOT_FOUND"
        /\ calls[c].result.error # ""
        /\ calls[c].options.messageError = ""
        /\ Events(calls[c], "onError")[1].given
        /\ calls[c].pc = "done"

\* what a throwing operation makes execute do: the toast with the override or
\* the generic message unless disabled, and onError(message, UNKNOWN, 500, ..)
C9_ShowsAndCalls(call) ==
    LET message == IF call.options.messageError \in {UNDEF, NULL}
                   THEN "Ocurrio un error inesperado"
                   ELSE call.options.messageError
    IN  /\ Events(call, "toast.error") =
              IF call.options.messageError = NULL THEN <<>>
              ELSE << [ev |-> "toast.error", args |-> <<message>>, given |-> TRUE] >>
        /\ Len(Events(call, "onError")) = 1
        /\ Events(call, "onError")[1].args = <<message, "UNKNOWN", "500", call.thrown>>

C10_TrueIffSuccess ==
    \A c \in Calls :
        calls[c].pc = "done" =>
            /\ calls[c].completion = "true"
                  <=> (calls[c].settled = "returned" /\ calls[c].result.success)
            /\ OperationFailed(calls[c]) => calls[c].completion = "false"

----------------------------------------------------------------------------
\* Claims about LikeButton, BookmarkButton and RecipeNotes

\* the write of the toggle of tab c returned in this step
C11_WriteReturned(c) ==
    /\ c \in DOMAIN tabs /\ c \in DOMAIN tabs'
    /\ tabs[c].pc = "write" /\ tabs[c].op = "toggle"
    /\ tabs'[c].pc = "idle"

C11_ErrorToast(tab) ==
    [kind |-> "error",
     message |-> IF tab.component = "LikeButton"
                 THEN "Error al actualizar like"
                 ELSE "Error al actualizar guardados"]

\* C11: when the write of a toggle returns to a mounted LikeButton or
\* BookmarkButton, then on an error the displayed state (and count) is the one
\* from before the click and an error toast is shown, and without an error
\* the displayed state (and count) is the flipped one.
C11_OptimisticToggle ==
    [][\A c \in Tabs :
         (C11_WriteReturned(c) /\ tabs[c].mounted) =>
            IF outcome'.error # NULL
            THEN /\ tabs'[c].isOn = tabs[c].previousState
                 /\ tabs'[c].likeCount = tabs[c].previousCount
                 /\ outcome'.toasts = <<C11_ErrorToast(tabs[c])>>
            ELSE /\ tabs'[c].isOn = ~tabs[c].previousState
                 /\ tabs'[c].likeCount =
                        IF tabs[c].component # "LikeButton" THEN 0
                        ELSE IF tabs[c].previousState
                             THEN tabs[c].previousCount - 1
                             ELSE tabs[c].previousCount + 1]_vars

\* C17: the store holds at most one bookmark row and at most one note row
\* per (user, recipe), whatever the tabs of the browser do and in whatever
\* order their requests arrive.
C17_OneRowPerUserRecipe ==
    \A table \in {"bookmarks", "recipe_notes"} :
        \A a, b \in db[table] :
            (a.user_id = b.user_id /\ a.recipe_id = b.recipe_id) => a = b

\* a second note of the same user for the same recipe was rejected
C17_Witness ==
    /\ outcome.error = UniqueViolation
    /\ outcome.toasts = <<[kind |-> "error",
                           message |-> "Error al guardar la nota"]>>
    /\ \E note \in db.recipe_notes : note.recipe_id = recipeId

\* the update of handleUpdateNote of tab c returned in this step
C18_UpdateReturned(c) ==
    /\ c \in DOMAIN tabs /\ c \in DOMAIN tabs'
    /\ tabs[c].pc = "write" /\ tabs[c].op = "update"
    /\ tabs'[c].pc = "idle"

\* C18: when an update of a note returns and the caller (the user of the
\* session) is not the author of the note, the caller got an error, an error
\* toast and no success toast was shown, and the note is unchanged.
C18_NonAuthorUpdateFails ==
    [][\A c \in Tabs : \A note \in db.recipe_notes :
         (/\ C18_UpdateReturned(c)
          /\ note.id = tabs[c].target /\ note.user_id # session) =>
            /\ note \in db'.recipe_notes
            /\ outcome'.error # NULL
            /\ outcome'.toasts = <<[kind |-> "error",
                                    message |-> "Error al actualizar la nota"]>>]_vars

----------------------------------------------------------------------------
\* Claims about updateSession

\* the claim's list of protected paths: starts with /profile, /my-recipes or
\* /bookmarks, equals /recipes/new, or is /recipes/<id>/edit
C19_Protected(pathname) ==
    \/ \E prefix \in { <<"/", "profile">>, <<"/", "my-recipes">>,
                       <<"/", "bookmarks">> } :
          /\ Len(pathname) >= Len(prefix)
          /\ \A i \in 1..Len(prefix) : pathname[i] = prefix[i]
    \/ pathname = <<"/", "recipes", "/", "new">>
    \/ /\ Len(pathname) = 6
       /\ pathname[4] # "/"
       /\ pathname = <<"/", "recipes", "/", pathname[4], "/", "edit">>

C19_RedirectsToLogin ==
    /\ mw.response.kind = "redirect"
    /\ mw.response.pathname = <<"/", "login">>
    /\ "redirect" \in DOMAIN mw.response.searchParams
    /\ mw.response.searchParams["redirect"] = mw.request.pathname

\* C19 (as claimed): every handled request without an authenticated user for
\* a protected path is answered with a redirect to /login whose 'redirect'
\* parameter is the requested path.
C19_ProtectedRedirects ==
    (/\ mw.pc = "done"
     /\ mw.request.user = NULL
     /\ C19_Protected(mw.request.pathname)) => C19_RedirectsToLogin

\* C19 (amended): ... when Supabase is configured; without configuration
\* every request is passed through.
C19_ProtectedRedirectsWhenConfigured ==
    /\ (/\ mw.pc = "done"
        /\ mw.isConfigured
        /\ mw.request.user = NULL
        /\ C19_Protected(mw.request.pathname)) => C19_RedirectsToLogin
    /\ (mw.pc = "done" /\ ~mw.isConfigured) => mw.response.kind = "next"

\* an anonymous request for /profile/edit?redirect=/profile was redirected
C19_Witness ==
    /\ mw.pc = "done" /\ mw.isConfigured
    /\ mw.request.user = NULL
    /\ mw.request.pathname = <<"/", "profile", "/", "edit">>
    /\ "redirect" \in DOMAIN mw.request.searchParams
    /\ C19_RedirectsToLogin

----------------------------------------------------------------------------
\* Claims about the recipe forms

C12_Kinds(shown) == { shown[k].kind : k \in DOMAIN shown }

\* C12: when a submit of a recipe form returns and one of its store writes
\* had failed, an error notification and no success notification was shown.
C12_FailedWriteIsReported ==
    (report.kind = "returned" /\ report.failed) =>
        C12_Kinds(report.toasts) = {"error"}

\* no ingredient of the form has a name with a character that is not a blank
C13_NoNamedIngredient(data) ==
    \A k \in DOMAIN data.ingredients : data.ingredients[k] \in {"", " ", "  "}

C14_Submitted(data) ==
    [ingredients |-> [k \in DOMAIN validIngredients(data) |->
                         Normalize(validIngredients(data)[k])],
     instructions |-> [k \in DOMAIN validInstructions(data) |->
                          Trim(validInstructions(data)[k])]]

\* C14: when the first submit returns with the success notification and no
\* request failed to reach the store, the loaders read back the submitted
\* ingredients and instructions in the submitted order, with order_index
\* 0..n-1 and step_number 1..m.
C14_RoundTrip ==
    (/\ report.kind = "returned"
     /\ "success" \in C12_Kinds(report.toasts)
     /\ submits = 1 /\ failures = 0) =>
        /\ LoadRecipe(store, report.recipeId) = C14_Submitted(report.data)
        /\ { l.order_index : l \in { x \in store.recipe_ingredients :
                                       x.recipe_id = report.recipeId } }
              = 0..(Len(validIngredients(report.data)) - 1)
        /\ { s.step_number : s \in { x \in store.instructions :
                                       x.recipe_id = report.recipeId } }
              = 1..Len(validInstructions(report.data))

\* C15: when no save is in progress, the instruction rows of every recipe
\* have the step numbers 1..M, M being the number of rows.
C15_StepsWithoutGap ==
    (\A b \in DOMAIN forms : forms[b].pc = "idle") =>
        \A r \in store.recipes :
            LET steps == { s \in store.instructions : s.recipe_id = r.id }
            IN  { s.step_number : s \in steps } = 1..Cardinality(steps)

\* the trimmed, lowercased form of the names of the model
C16_Key(name) ==
    CASE name \in {"Sal", "sal", " sal ", "SAL"} -> "sal"
      [] name \in {"Ajo", "ajo", " ajo "} -> "ajo"
      [] OTHER -> name

\* C16: the ingredients catalog holds at most one row per normalized name.
C16_OneRowPerName ==
    \A g, h \in store.ingredients : C16_Key(g.name) = C16_Key(h.name) => g = h

\* two users saved the same new ingredient at the same time: the insert of
\* one of them was rejected by the catalog, which holds the name once
C16_Witness ==
    /\ failures = 0
    /\ \E g \in store.ingredients : g.name = "sal"
    /\ \E b \in DOMAIN forms :
          /\ forms[b].pc = "selectIngredient" /\ forms[b].i = 2
          /\ forms[b].failed
          /\ C16_Key(validIngredients(forms[b].data)[1]) = "sal"
          /\ ~\E l \in store.recipe_ingredients :
                  l.recipe_id = forms[b].recipeId

\* C20: when the rpc of RecipeForm returns an error, the store is unchanged,
\* the submit is over (no further request, loading false), one error
\* notification and no success notification is shown, and no route is pushed.
C20_RpcErrorEndsSubmit ==
    [][\A b \in DOMAIN forms :
         (/\ forms[b].pc = "rpc" /\ forms'[b].pc # "rpc"
          /\ (forms'[b].error # NULL
                \/ (report'.kind = "returned" /\ report'.error # NULL))) =>
            /\ store' = store
            /\ forms'[b] = IdleForm
            /\ report'.kind = "returned" /\ report'.browser = b
            /\ Len(report'.toasts) = 1
            /\ C12_Kinds(report'.toasts) = {"error"}
            /\ report'.push = NULL
            /\ ~report'.loading]_vars

\* update_recipe_atomic refused a caller who does not own the recipe
C20_Witness ==
    /\ report.kind = "returned"
    /\ report.page = "RecipeForm edit"
    /\ report.error = NotOwned
    /\ report.toasts = <<[kind |-> "error",
                          message |-> "No tienes permiso para editar esta receta"]>>
    /\ forms[report.browser] = IdleForm

----------------------------------------------------------------------------
\* ServerActions: one invocation per action, all started together

\* C22: in every step of a ServerActions call, each operation that was
\* started was invoked once, with resolvedSearchParams; no operation has
\* settled while another is not started; a result, once stored, is not
\* changed by the completion of another operation; and what is handed to
\* children is, key by key, a function of the result of that key's operation
\* and of its defaultValue only.
C22_OncePerCall ==
    [][/\ \A k \in DOMAIN actions' :
            /\ Len(callArgs'[k]) <= 1
            /\ opState'[k] # "notStarted" =>
                  callArgs'[k] = <<resolvedSearchParams'>>
       /\ (\E k \in DOMAIN actions' : opState'[k] \in {"fulfilled", "rejected"})
             => \A k \in DOMAIN actions' : opState'[k] # "notStarted"
       /\ \A k \in DOMAIN results :
            k \in DOMAIN results' /\ results'[k] = results[k]
       /\ phase' = "rendered" =>
            /\ DOMAIN processedData' = DOMAIN actions'
            /\ DOMAIN processedErrors' = DOMAIN actions'
            /\ \A k \in DOMAIN actions' :
                 /\ processedData'[k] =
                       ProcessData(results'[k],
                                   IF HasDefault(actions'[k])
                                   THEN actions'[k].defaultValue ELSE UNDEF)
                 /\ processedErrors'[k] = ProcessError(results'[k])]_vars

\* the operation started last has returned while the first is still pending
C22_Witness ==
    /\ phase = "awaiting"
    /\ Cardinality(Keys) = 2
    /\ opState["recipe"] = "pending"
    /\ opState["comments"] = "fulfilled"
    /\ callArgs["recipe"] = <<"q=pasta">>
    /\ callArgs["comments"] = <<"q=pasta">>

----------------------------------------------------------------------------
\* useServerAction: the callbacks of one call, overlapping calls

\* the positions in the log of a call at which one of the given callbacks was
\* invoked
C26_Invoked(call, callbacks) ==
    { i \in DOMAIN call.log : call.log[i].ev \in callbacks /\ call.log[i].given }

\* the positions at which the call reached the given statement (an optional
\* call is reached also when the callback is absent)
C26_Reached(call, ev) == { i \in DOMAIN call.log : call.log[i].ev = ev }

\* C26: a finished execute call invoked onSuccess or onError at most once in
\* total (once when the callback of its outcome was given), and reached
\* options.onFinally?.() exactly once, after that invocation and after
\* setIsLoading(false).
C26_OneCallbackThenFinally ==
    \A c \in DOMAIN calls :
        calls[c].pc = "done" =>
            LET call == calls[c]
                outcome_ == C26_Invoked(call, {"onSuccess", "onError"})
                finally_ == C26_Reached(call, "onFinally")
            IN  /\ Cardinality(outcome_) <= 1
                /\ Cardinality(finally_) = 1
                /\ \A f \in finally_ :
                      /\ \A i \in outcome_ : i < f
                      /\ \E i \in DOMAIN call.log :
                            /\ i < f
                            /\ call.log[i].ev = "setIsLoading"
                            /\ call.log[i].args = <<"false">>

\* C25: isLoading is true while the operation of any execute call of the
\* instance is in flight.
C25_LoadingWhileAnyInFlight ==
    (\E c \in DOMAIN calls : calls[c].pc = "action") => isLoading

----------------------------------------------------------------------------
\* Saves of one recipe from two tabs; the duplicate-name error

\* the ingredients, instructions and categories stored for a recipe
C21_Stored(st, recipe_id) ==
    [ingredients |-> LoadRecipe(st, recipe_id).ingredients,
     instructions |-> LoadRecipe(st, recipe_id).instructions,
     categories |-> { l.category_id : l \in { x \in st.recipe_categories :
                                               x.recipe_id = recipe_id } }]

\* what one submission of the form stores when it is applied in full
C21_Of(data) ==
    [ingredients |-> C14_Submitted(data).ingredients,
     instructions |-> C14_Submitted(data).instructions,
     categories |-> { data.categories[k] : k \in DOMAIN data.categories }]

\* C21: when no save is in progress and every request reached the store,
\* each recipe holds the parts of exactly one submission in full (or the
\* parts it had before the two tabs were opened).
C21_OneSubmissionInFull ==
    (/\ \A b \in DOMAIN forms : forms[b].pc = "idle"
     /\ failures = 0) =>
        \A r \in store.recipes :
            \/ C21_Stored(store, r.id) = C21_Stored(TwoRecipes, r.id)
            \/ \E data \in EditValues : C21_Stored(store, r.id) = C21_Of(data)

\* C23: when the write of the recipe row (pages) or the rpc (RecipeForm)
\* returns the error 23505, onSubmit shows 'Ya tienes una receta con ese
\* nombre' and nothing else, and returns: the store is unchanged, no further
\* request is started and no route is pushed.
C23_DuplicateStops ==
    [][\A b \in DOMAIN forms :
         (/\ forms[b].pc \in {"recipe", "rpc"}
          /\ forms'[b].pc # forms[b].pc
          /\ report'.kind = "returned" /\ report'.browser = b
          /\ report'.error = UniqueViolation) =>
            /\ report'.toasts =
                  <<[kind |-> "error",
                     message |-> "Ya tienes una receta con ese nombre"]>>
            /\ store' = store
            /\ forms'[b].pc = "idle" /\ ~forms'[b].loading
            /\ report'.push = NULL]_vars

\* the edit page renamed a recipe to the name of another recipe of the user
C23_Witness ==
    /\ report.kind = "returned"
    /\ report.page = "edit/page.tsx"
    /\ report.recipeId = 2
    /\ report.error = UniqueViolation
    /\ report.toasts = <<[kind |-> "error",
                          message |-> "Ya tienes una receta con ese nombre"]>>
    /\ store = TwoRecipes

----------------------------------------------------------------------------
\* createClient of the browser

\* C24: with Supabase configured, createBrowserClient was invoked at most
\* once and every call of createClient() returned the one client; without
\* configuration every call returned null and no client was made.
C24_OneBrowserClient ==
    LET returned == UNION { { sb.returned[c][i] : i \in DOMAIN sb.returned[c] } :
                            c \in DOMAIN sb.returned }
    IN  IF sb.isConfigured
        THEN /\ sb.created <= 1
             /\ Cardinality(returned) <= 1
             /\ NoClient \notin returned
             /\ returned # {} => sb.created = 1
        ELSE /\ sb.created = 0
             /\ returned \subseteq {NoClient}

\* Header and LikeButton each called createClient() twice and hold client 1
C24_Witness ==
    /\ sb.isConfigured
    /\ sb.created = 1
    /\ sb.returned["Header"] = <<1, 1>>
    /\ sb.returned["LikeButton"] = <<1, 1>>

----------------------------------------------------------------------------
\* AuthProvider and Header

\* C30: while SIGNED_OUT is the last auth event a component handled, its
\* user state is null.
C30_SignedOutStaysNull ==
    \A comp \in DOMAIN auth :
        auth[comp].lastEvent = "SIGNED_OUT" => auth[comp].user = NoUser

\* C28: the likeCount a mounted LikeButton displays is never negative,
\* whatever the other tabs of the browser write between its count read and
\* its liked-by-me read.
C28_LikeCountNotNegative ==
    \A c \in DOMAIN tabs :
        (tabs[c].component = "LikeButton" /\ tabs[c].mounted) =>
            tabs[c].likeCount >= 0

\* the (user, recipe) row of the button is in the store
C27_Row(tab) ==
    \E row \in db[TableOf(tab)] :
        row.user_id = tab.userId /\ row.recipe_id = recipeId

\* C27: one mounted LikeButton or BookmarkButton of a signed-in user, no
\* other client: once its status check has finished and no toggle is in
\* flight, the displayed state says whether the store holds the row of the
\* user and the recipe.
C27_SettledStateIsStored ==
    \A c \in DOMAIN tabs :
        (/\ tabs[c].mounted /\ tabs[c].userId # NULL
         /\ tabs[c].check = "done" /\ tabs[c].pc = "idle") =>
            (tabs[c].isOn <=> C27_Row(tabs[c]))

\* the write of a toggle of the button is in flight
C29_InFlight(tab) == tab.pc = "write" /\ tab.op = "toggle"

\* C29: a LikeButton or BookmarkButton has at most one write in flight. A
\* write is in flight only while isLoading is set; a toggle invoked while
\* the write is in flight returns without a request and leaves the state of
\* the component and the store as they are; and when the write returns to
\* the mounted component, isLoading is false again.
C29_OneWriteInFlight ==
    [][\A c \in DOMAIN tabs :
         /\ (tabs'[c].mounted /\ C29_InFlight(tabs'[c])) => tabs'[c].isLoading
         /\ (/\ C29_InFlight(tabs[c]) /\ C29_InFlight(tabs'[c])
             /\ tabs[c].mounted /\ tabs'[c].mounted
             /\ tabs'[c].check = tabs[c].check) => tabs'[c] = tabs[c]
         /\ outcome'.ignored => (tabs' = tabs /\ db' = db)
         /\ (/\ C29_InFlight(tabs[c]) /\ ~C29_InFlight(tabs'[c])
             /\ tabs'[c].mounted) => ~tabs'[c].isLoading]_vars

\* a toggle was invoked while the write of the previous one was in flight
C29_Witness ==
    /\ outcome.ignored
    /\ \E c \in DOMAIN tabs :
          /\ tabs[c].mounted /\ C29_InFlight(tabs[c]) /\ tabs[c].isLoading

====
